---- MODULE Spec2Model ----
\* Model of the Nixie clock firmware ardunixFade9_6_digit.ino:
\* the high-voltage PWM regulator and calibrator, and the digit renderer,
\* driven by setup() and loop().
EXTENDS Integers, Sequences, FiniteSets, TLC

\* ---------------------------------------------------------------------
\* Program constants (the #define lines of the sketch)
\* ---------------------------------------------------------------------
EE_FADE_STEPS == 2
EE_DATE_FORMAT == 3
EE_DAY_BLANKING == 4
EE_BLANK_LEAD_ZERO == 7
EE_SCROLLBACK == 10
EE_PULSE_LO == 11
EE_PULSE_HI == 12
EE_SCROLL_STEPS == 13
EE_BACKLIGHT_MODE == 14
EE_HV_VOLTAGE == 21
EE_PWM_TOP_LO == 26
EE_PWM_TOP_HI == 27
EE_HVG_NEED_CALIB == 28
EE_DIM_DARK_LO == 5
EE_DIM_DARK_HI == 6
EE_DIM_BRIGHT_LO == 15
EE_DIM_BRIGHT_HI == 16
EE_DIM_SMOOTH_SPEED == 17

DIGIT_DISPLAY_COUNT == 1000
DIGIT_ANTI_GHOST == DIGIT_DISPLAY_COUNT + 10
DIGIT_DISPLAY_ON == 0
DIGIT_DISPLAY_OFF == 999
DIGIT_DISPLAY_NEVER == -1
DIGIT_DISPLAY_MIN_DIM == 100
DIM_VALUE == DIGIT_DISPLAY_COUNT \div 5

SENSOR_LOW_MIN == 0
SENSOR_LOW_MAX == 900
SENSOR_LOW_DEFAULT == 100
SENSOR_HIGH_MIN == 0
SENSOR_HIGH_MAX == 900
SENSOR_HIGH_DEFAULT == 700
SENSOR_SMOOTH_READINGS_MIN == 1
SENSOR_SMOOTH_READINGS_MAX == 255
SENSOR_SMOOTH_READINGS_DEFAULT == 100

BLINK_COUNT_MAX == 25

HVGEN_TARGET_VOLTAGE_DEFAULT == 180
HVGEN_TARGET_VOLTAGE_MIN == 150
HVGEN_TARGET_VOLTAGE_MAX == 200

PWM_TOP_DEFAULT == 1000
PWM_TOP_MIN == 300
PWM_TOP_MAX == 10000
PWM_PULSE_DEFAULT == 200
PWM_PULSE_MIN == 50
PWM_PULSE_MAX == 500
PWM_OFF_MIN == 50

SCROLL_STEPS_DEFAULT == 4
SCROLL_STEPS_MIN == 1
SCROLL_STEPS_MAX == 40
FADE_STEPS_DEFAULT == 50
FADE_STEPS_MAX == 200
FADE_STEPS_MIN == 20

BLANKED == 0
DIMMED == 1
FADE == 2
NORMAL == 3
BLINK == 4
SCROLL == 5
BRIGHT == 6

DATE_FORMAT_MIN == 0
DATE_FORMAT_MAX == 2
DATE_FORMAT_DEFAULT == 2

DAY_BLANKING_MIN == 0
DAY_BLANKING_HOURS == 4
DAY_BLANKING_MAX == 8
DAY_BLANKING_DEFAULT == 0
BACKLIGHT_MIN == 0
BACKLIGHT_CYCLE == 2
BACKLIGHT_CYCLE_DIM == 5
BACKLIGHT_MAX == 5
BACKLIGHT_DEFAULT == 0

I2C_TIME_UPDATE == 0
I2C_SET_OPTION_12_24 == 2
I2C_SET_OPTION_BLANK_LEAD == 3
I2C_SET_OPTION_SCROLLBACK == 4
I2C_SET_OPTION_SUPPRESS_ACP == 5
I2C_SET_OPTION_DATE_FORMAT == 6
I2C_SET_OPTION_DAY_BLANKING == 7
I2C_SET_OPTION_BLANK_START == 8
I2C_SET_OPTION_BLANK_END == 9
I2C_SET_OPTION_FADE_STEPS == 10
I2C_SET_OPTION_SCROLL_STEPS == 11
I2C_SET_OPTION_BACKLIGHT_MODE == 12
I2C_SET_OPTION_RED_CHANNEL == 13
I2C_SET_OPTION_GREEN_CHANNEL == 14
I2C_SET_OPTION_BLUE_CHANNEL == 15
I2C_SET_OPTION_CYCLE_SPEED == 16

SOFTWARE_VERSION == 45

MODE_MIN == 0
MODE_TIME == 0
MODE_MINS_SET == 1
MODE_HOURS_SET == 2
MODE_DAYS_SET == 3
MODE_MONTHS_SET == 4
MODE_YEARS_SET == 5
MODE_12_24 == 6
MODE_LEAD_BLANK == 7
MODE_SCROLLBACK == 8
MODE_DATE_FORMAT == 9
MODE_DAY_BLANKING == 10
MODE_HR_BLNK_START == 11
MODE_HR_BLNK_END == 12
MODE_SUPPRESS_ACP == 13
MODE_FADE_STEPS_UP == 14
MODE_FADE_STEPS_DOWN == 15
MODE_DISPLAY_SCROLL_STEPS_UP == 16
MODE_DISPLAY_SCROLL_STEPS_DOWN == 17
MODE_BACKLIGHT_MODE == 18
MODE_RED_CNL == 19
MODE_GRN_CNL == 20
MODE_BLU_CNL == 21
MODE_CYCLE_SPEED == 22
MODE_TARGET_HV_UP == 23
MODE_TARGET_HV_DOWN == 24
MODE_PULSE_UP == 25
MODE_PULSE_DOWN == 26
MODE_TEMP == 27
MODE_VERSION == 28
MODE_TUBE_TEST == 29
MODE_MAX == 29
MODE_DIGIT_BURN == 99

\* Limits of the minutes and hours; the resync period of the time provider
MINS_MAX == 60
HOURS_MAX == 24
READ_TIME_PROVIDER_MILLIS == 60000

TEMP_MODE_MIN == 0
TEMP_MODE_DATE == 0
TEMP_MODE_TEMP == 1
TEMP_MODE_LDR == 2
TEMP_MODE_VERSION == 3
TEMP_MODE_MAX == 3

\* Bit values of the Timer1 control register A (avr/io.h: WGM11 is bit 1,
\* COM1A1 is bit 7), as used by setup().
WGM11_BIT == 2
COM1A1_BIT == 128

\* Number of iterations of each calibration pass (the literal 768).
CALIB_PASS_ITERATIONS == 768

\* The six digit positions.
Slots == 0 .. 5

\* ---------------------------------------------------------------------
\* Bounds of the model (not program constants)
\* ---------------------------------------------------------------------
\* loop() is iterated at most MaxLoops times.
MaxLoops == 450
\* During calibration the HV reading keeps its level for ADCHold iterations.
ADCHold == 768
\* The specification of the HV generator follows loop() for HVLoops iterations.
HVLoops == 6
\* The specification of the settings menu follows loop() for MenuLoops iterations.
MenuLoops == 40
\* The specifications of the renderer follow loop() for FadeLoops,
\* ScrollLoops and ModeLoops iterations.
FadeLoops == 205
ScrollLoops == 425
ModeLoops == 62
\* The clock reading changes at most every SecondLoops iterations; in the
\* specification of the display modes, every ModeSecondLoops iterations.
SecondLoops == 60
ModeSecondLoops == 3
\* The version display at power-on lasts VersionLoops iterations.
VersionLoops == 2
\* The specification of the step settings follows loop() for StepLoops
\* iterations.
StepLoops == 40
\* The specification of the ambient light follows loop() for DimLoops
\* iterations.
DimLoops == 30

\* ---------------------------------------------------------------------
\* State
\* ---------------------------------------------------------------------
VARIABLES
  pc,                \* position of the main context: inside setup() or in loop()
  calPass,           \* calibrateHVG: the pass being run (1..4), 0 outside
  calI,              \* calibrateHVG: the loop index i of the pass
  bottomOnValue,     \* calibrateHVG: local bottomOnValue
  EEPROM,            \* EEPROM cells (address -> byte)
  useRTC,
  hvTargetVoltage, pwmTop, pwmOn,
  tccrOff, tccrOn, rawHVADCThreshold, sensorHVSmoothed,
  TCCR1A, ICR1, OCR1A,            \* Timer1 registers
  NumberArray, currNumberArray, displayType, fadeState,
  fadeSteps, fadeStep, digitOffCount, scrollSteps, scrollback,
  blinkCounter, blinkState, blankLeading, blanked,
  digitOnTime, digitOffTime, digitSwitchTime,  \* outputDisplay locals, per slot, of the last pass
  currentMode, nextMode, tempDisplayMode, acpOffset, acpTick, loopCounter,
  dayBlanking, backlightMode, dateFormat, digitBurnDigit, digitBurnValue,
  secsDisplayEnd, blankSuppressedEndMillis, blankSuppressedStartMillis,
                     \* the three deadlines, compared with nowMillis:
                     \* "zero", "future" or "past"
  blankSuppressStep,
  PORTC, PORTD,      \* the port bits that drive the six anodes: the set of
                     \* bit weights that are high
  dimDark, dimBright, sensorSmoothCountLDR,
  sensorLDRSmoothed, \* a double, kept in units of 1/LDRUnit
  nowMillis,         \* the global nowMillis: the reading of millis() the main
                     \* context took last, counted from the end of setup()
  button1,           \* the fields of the Button object
  displayDate,       \* the fields of the DateTime object
  hist,              \* history of the transition in progress in each slot
  last               \* history of the last operation: its name, its argument,
                     \* how many times it has run, and whether it took a short press

ctlVars == <<pc, calPass, calI, bottomOnValue>>
hvVars == <<hvTargetVoltage, pwmTop, pwmOn, tccrOff, tccrOn, rawHVADCThreshold,
            sensorHVSmoothed, TCCR1A, ICR1, OCR1A>>
cfgVars == <<fadeSteps, scrollSteps, scrollback, blankLeading, dayBlanking, backlightMode,
             dateFormat>>
dispVars == <<NumberArray, currNumberArray, displayType, fadeState, fadeStep,
              digitOffCount, blinkCounter, blinkState, blanked,
              digitOnTime, digitOffTime, digitSwitchTime, hist>>
modeVars == <<currentMode, nextMode, tempDisplayMode, acpOffset, acpTick, loopCounter,
              digitBurnDigit, digitBurnValue, secsDisplayEnd, blankSuppressedEndMillis,
              blankSuppressedStartMillis, blankSuppressStep>>
ldrVars == <<dimDark, dimBright, sensorSmoothCountLDR, sensorLDRSmoothed>>
portVars == <<PORTC, PORTD>>
timeVars == <<nowMillis, button1, displayDate>>
vars == <<ctlVars, EEPROM, useRTC, hvVars, cfgVars, dispVars, modeVars, ldrVars, portVars,
          timeVars, last>>

\* ---------------------------------------------------------------------
\* Integer helpers
\* ---------------------------------------------------------------------
\* A value stored in a 16-bit int (AVR int), wrapped to two's complement.
Int16(x) == ((x + 32768) % 65536) - 32768
\* A value stored in a byte.
Byte(x) == x % 256
\* C integer division and remainder, truncating toward zero.
CDiv(a, b) == IF a >= 0 THEN a \div b ELSE -((-a) \div b)
CMod(a, b) == a - b * CDiv(a, b)

\* ---------------------------------------------------------------------
\* The program state as one record, so that the C functions are operators
\* from state to state and a handler is their composition in program order.
\* ---------------------------------------------------------------------
Cur ==
  [pc |-> pc, calPass |-> calPass, calI |-> calI, bottomOnValue |-> bottomOnValue,
   EEPROM |-> EEPROM, useRTC |-> useRTC,
   hvTargetVoltage |-> hvTargetVoltage, pwmTop |-> pwmTop, pwmOn |-> pwmOn,
   tccrOff |-> tccrOff, tccrOn |-> tccrOn, rawHVADCThreshold |-> rawHVADCThreshold,
   sensorHVSmoothed |-> sensorHVSmoothed, TCCR1A |-> TCCR1A, ICR1 |-> ICR1, OCR1A |-> OCR1A,
   NumberArray |-> NumberArray, currNumberArray |-> currNumberArray,
   displayType |-> displayType, fadeState |-> fadeState,
   fadeSteps |-> fadeSteps, fadeStep |-> fadeStep, digitOffCount |-> digitOffCount,
   scrollSteps |-> scrollSteps, scrollback |-> scrollback,
   blinkCounter |-> blinkCounter, blinkState |-> blinkState,
   blankLeading |-> blankLeading, blanked |-> blanked,
   digitOnTime |-> digitOnTime, digitOffTime |-> digitOffTime,
   digitSwitchTime |-> digitSwitchTime,
   currentMode |-> currentMode, nextMode |-> nextMode,
   tempDisplayMode |-> tempDisplayMode, acpOffset |-> acpOffset, acpTick |-> acpTick,
   loopCounter |-> loopCounter, dayBlanking |-> dayBlanking,
   backlightMode |-> backlightMode, dateFormat |-> dateFormat,
   digitBurnDigit |-> digitBurnDigit, digitBurnValue |-> digitBurnValue,
   secsDisplayEnd |-> secsDisplayEnd,
   blankSuppressedEndMillis |-> blankSuppressedEndMillis,
   blankSuppressedStartMillis |-> blankSuppressedStartMillis,
   blankSuppressStep |-> blankSuppressStep, PORTC |-> PORTC, PORTD |-> PORTD,
   dimDark |-> dimDark, dimBright |-> dimBright,
   sensorSmoothCountLDR |-> sensorSmoothCountLDR,
   sensorLDRSmoothed |-> sensorLDRSmoothed,
   nowMillis |-> nowMillis, button1 |-> button1, displayDate |-> displayDate,
   hist |-> hist, last |-> last]

Becomes(s) ==
  /\ pc' = s.pc /\ calPass' = s.calPass /\ calI' = s.calI
  /\ bottomOnValue' = s.bottomOnValue
  /\ EEPROM' = s.EEPROM /\ useRTC' = s.useRTC
  /\ hvTargetVoltage' = s.hvTargetVoltage /\ pwmTop' = s.pwmTop /\ pwmOn' = s.pwmOn
  /\ tccrOff' = s.tccrOff /\ tccrOn' = s.tccrOn
  /\ rawHVADCThreshold' = s.rawHVADCThreshold
  /\ sensorHVSmoothed' = s.sensorHVSmoothed
  /\ TCCR1A' = s.TCCR1A /\ ICR1' = s.ICR1 /\ OCR1A' = s.OCR1A
  /\ NumberArray' = s.NumberArray /\ currNumberArray' = s.currNumberArray
  /\ displayType' = s.displayType /\ fadeState' = s.fadeState
  /\ fadeSteps' = s.fadeSteps /\ fadeStep' = s.fadeStep
  /\ digitOffCount' = s.digitOffCount
  /\ scrollSteps' = s.scrollSteps /\ scrollback' = s.scrollback
  /\ blinkCounter' = s.blinkCounter /\ blinkState' = s.blinkState
  /\ blankLeading' = s.blankLeading /\ blanked' = s.blanked
  /\ digitOnTime' = s.digitOnTime /\ digitOffTime' = s.digitOffTime
  /\ digitSwitchTime' = s.digitSwitchTime
  /\ currentMode' = s.currentMode /\ nextMode' = s.nextMode
  /\ tempDisplayMode' = s.tempDisplayMode
  /\ acpOffset' = s.acpOffset /\ acpTick' = s.acpTick
  /\ loopCounter' = s.loopCounter
  /\ dayBlanking' = s.dayBlanking /\ backlightMode' = s.backlightMode
  /\ dateFormat' = s.dateFormat
  /\ secsDisplayEnd' = s.secsDisplayEnd
  /\ blankSuppressedEndMillis' = s.blankSuppressedEndMillis
  /\ blankSuppressedStartMillis' = s.blankSuppressedStartMillis
  /\ blankSuppressStep' = s.blankSuppressStep
  /\ digitBurnDigit' = s.digitBurnDigit /\ digitBurnValue' = s.digitBurnValue
  /\ PORTC' = s.PORTC /\ PORTD' = s.PORTD
  /\ dimDark' = s.dimDark /\ dimBright' = s.dimBright
  /\ sensorSmoothCountLDR' = s.sensorSmoothCountLDR
  /\ sensorLDRSmoothed' = s.sensorLDRSmoothed
  /\ nowMillis' = s.nowMillis /\ button1' = s.button1 /\ displayDate' = s.displayDate
  /\ hist' = s.hist
  /\ last' = s.last

\* The variables hold the values of the record s
Holds(s) ==
  /\ pc = s.pc /\ calPass = s.calPass /\ calI = s.calI
  /\ bottomOnValue = s.bottomOnValue
  /\ EEPROM = s.EEPROM /\ useRTC = s.useRTC
  /\ hvTargetVoltage = s.hvTargetVoltage /\ pwmTop = s.pwmTop /\ pwmOn = s.pwmOn
  /\ tccrOff = s.tccrOff /\ tccrOn = s.tccrOn
  /\ rawHVADCThreshold = s.rawHVADCThreshold
  /\ sensorHVSmoothed = s.sensorHVSmoothed
  /\ TCCR1A = s.TCCR1A /\ ICR1 = s.ICR1 /\ OCR1A = s.OCR1A
  /\ NumberArray = s.NumberArray /\ currNumberArray = s.currNumberArray
  /\ displayType = s.displayType /\ fadeState = s.fadeState
  /\ fadeSteps = s.fadeSteps /\ fadeStep = s.fadeStep
  /\ digitOffCount = s.digitOffCount
  /\ scrollSteps = s.scrollSteps /\ scrollback = s.scrollback
  /\ blinkCounter = s.blinkCounter /\ blinkState = s.blinkState
  /\ blankLeading = s.blankLeading /\ blanked = s.blanked
  /\ digitOnTime = s.digitOnTime /\ digitOffTime = s.digitOffTime
  /\ digitSwitchTime = s.digitSwitchTime
  /\ currentMode = s.currentMode /\ nextMode = s.nextMode
  /\ tempDisplayMode = s.tempDisplayMode
  /\ acpOffset = s.acpOffset /\ acpTick = s.acpTick
  /\ loopCounter = s.loopCounter
  /\ dayBlanking = s.dayBlanking /\ backlightMode = s.backlightMode
  /\ dateFormat = s.dateFormat
  /\ secsDisplayEnd = s.secsDisplayEnd
  /\ blankSuppressedEndMillis = s.blankSuppressedEndMillis
  /\ blankSuppressedStartMillis = s.blankSuppressedStartMillis
  /\ blankSuppressStep = s.blankSuppressStep
  /\ digitBurnDigit = s.digitBurnDigit /\ digitBurnValue = s.digitBurnValue
  /\ PORTC = s.PORTC /\ PORTD = s.PORTD
  /\ dimDark = s.dimDark /\ dimBright = s.dimBright
  /\ sensorSmoothCountLDR = s.sensorSmoothCountLDR
  /\ sensorLDRSmoothed = s.sensorLDRSmoothed
  /\ nowMillis = s.nowMillis /\ button1 = s.button1 /\ displayDate = s.displayDate
  /\ hist = s.hist
  /\ last = s.last

\* ---------------------------------------------------------------------
\* HV generator
\* ---------------------------------------------------------------------
\* getRawHVADCThreshold: (int)(targetVoltage * 4.7 / 394.7 * 1023 / 5)
\* = floor(targetVoltage * 48081 / 19735)
getRawHVADCThreshold(targetVoltage) == (targetVoltage * 48081) \div 19735

\* setPWMTopTime as it would be without the test against PWM_TOP_MAX
setPWMTopTimeNoMax(s, newTopTime) ==
  LET a == IF newTopTime < PWM_TOP_MIN THEN PWM_TOP_MIN ELSE newTopTime
      c == IF a < s.pwmOn + PWM_OFF_MIN THEN s.pwmOn + PWM_OFF_MIN ELSE a
  IN  [s EXCEPT !.ICR1 = c, !.pwmTop = c]

\* setPWMTopTime
setPWMTopTime(s, newTopTime) ==
  LET a == IF newTopTime < PWM_TOP_MIN THEN PWM_TOP_MIN ELSE newTopTime
      b == IF a > PWM_TOP_MAX THEN PWM_TOP_MAX ELSE a
      c == IF b < s.pwmOn + PWM_OFF_MIN THEN s.pwmOn + PWM_OFF_MIN ELSE b
  IN  [s EXCEPT !.ICR1 = c, !.pwmTop = c]

\* setPWMOnTime as it would be without the test against pwmTop - PWM_OFF_MIN
setPWMOnTimeNoMargin(s, newOnTime) ==
  LET a == IF newOnTime < PWM_PULSE_MIN THEN PWM_PULSE_MIN ELSE newOnTime
      b == IF a > PWM_PULSE_MAX THEN PWM_PULSE_MAX ELSE a
  IN  [s EXCEPT !.OCR1A = b, !.pwmOn = b]

\* setPWMOnTime
setPWMOnTime(s, newOnTime) ==
  LET a == IF newOnTime < PWM_PULSE_MIN THEN PWM_PULSE_MIN ELSE newOnTime
      b == IF a > PWM_PULSE_MAX THEN PWM_PULSE_MAX ELSE a
      c == IF b > s.pwmTop - PWM_OFF_MIN THEN s.pwmTop - PWM_OFF_MIN ELSE b
  IN  [s EXCEPT !.OCR1A = c, !.pwmOn = c]

incPWMOnTime(s) == setPWMOnTime(s, s.pwmOn + 1)

decPWMOnTime(s) == setPWMOnTime(s, s.pwmOn - 1)

\* getSmoothedHVSensorReading: the moving average of the raw samples is an
\* input of the model; reading is the int it returns, which is also what
\* sensorHVSmoothed holds (truncated) afterwards.
getSmoothedHVSensorReading(s, reading) == [s EXCEPT !.sensorHVSmoothed = reading]

\* checkHVVoltage as it would be with ">=" for ">"
checkHVVoltageGE(s, reading) ==
  LET s1 == getSmoothedHVSensorReading(s, reading)
  IN  IF reading >= s1.rawHVADCThreshold
      THEN setPWMTopTime(s1, s1.pwmTop + 1)
      ELSE setPWMTopTime(s1, s1.pwmTop - 1)

\* checkHVVoltage as it would be if it regulated with the on time as well
checkHVVoltageOnTime(s, reading) ==
  LET s1 == getSmoothedHVSensorReading(s, reading)
  IN  IF reading > s1.rawHVADCThreshold
      THEN decPWMOnTime(setPWMTopTime(s1, s1.pwmTop + 1))
      ELSE incPWMOnTime(setPWMTopTime(s1, s1.pwmTop - 1))

\* checkHVVoltage as it would be if it stepped the period by two ticks
checkHVVoltageStep2(s, reading) ==
  LET s1 == getSmoothedHVSensorReading(s, reading)
  IN  IF reading > s1.rawHVADCThreshold
      THEN setPWMTopTime(s1, s1.pwmTop + 2)
      ELSE setPWMTopTime(s1, s1.pwmTop - 2)

\* checkHVVoltage, with the smoothed reading it obtains
checkHVVoltage(s, reading) ==
  LET s1 == getSmoothedHVSensorReading(s, reading)
  IN  IF reading > s1.rawHVADCThreshold
      THEN setPWMTopTime(s1, s1.pwmTop + 1)
      ELSE setPWMTopTime(s1, s1.pwmTop - 1)

\* Values the smoothed HV reading is drawn from: just under, at and just
\* over the threshold in force.
HVReadings(s) == {s.rawHVADCThreshold - 1, s.rawHVADCThreshold, s.rawHVADCThreshold + 1}

\* ---------------------------------------------------------------------
\* Digit renderer: outputDisplay
\* ---------------------------------------------------------------------
\* An on step that lights a blanked slot.
OnTimeOfBlankedLit(tmpDispType, blink, prevOn) ==
  CASE tmpDispType \in {BLANKED, DIMMED, BRIGHT, FADE, NORMAL, SCROLL} -> DIGIT_DISPLAY_ON
    [] tmpDispType = BLINK -> IF blink THEN DIGIT_DISPLAY_ON ELSE DIGIT_DISPLAY_NEVER
    [] OTHER -> prevOn

\* The first switch of outputDisplay: digitOnTime of a slot. A display type
\* outside the cases leaves the local as it was (prevOn).
OnTimeOf(tmpDispType, blink, prevOn) ==
  CASE tmpDispType = BLANKED -> DIGIT_DISPLAY_NEVER
    [] tmpDispType \in {DIMMED, BRIGHT, FADE, NORMAL, SCROLL} -> DIGIT_DISPLAY_ON
    [] tmpDispType = BLINK -> IF blink THEN DIGIT_DISPLAY_ON ELSE DIGIT_DISPLAY_NEVER
    [] OTHER -> prevOn

\* An off step that keeps a Bright slot lit for the whole display count.
OffTimeOfBrightFull(tmpDispType, blink, offCount, prevOff) ==
  CASE tmpDispType = BLANKED -> DIGIT_DISPLAY_ON
    [] tmpDispType = DIMMED -> DIM_VALUE
    [] tmpDispType = BRIGHT -> DIGIT_DISPLAY_COUNT
    [] tmpDispType \in {FADE, NORMAL, SCROLL} -> offCount
    [] tmpDispType = BLINK -> IF blink THEN offCount ELSE DIGIT_DISPLAY_ON
    [] OTHER -> prevOff

\* An off step that lights a Blink slot to the end of the display range.
OffTimeOfBlinkBright(tmpDispType, blink, offCount, prevOff) ==
  CASE tmpDispType = BLANKED -> DIGIT_DISPLAY_ON
    [] tmpDispType = DIMMED -> DIM_VALUE
    [] tmpDispType = BRIGHT -> DIGIT_DISPLAY_OFF
    [] tmpDispType \in {FADE, NORMAL, SCROLL} -> offCount
    [] tmpDispType = BLINK -> IF blink THEN DIGIT_DISPLAY_OFF ELSE DIGIT_DISPLAY_ON
    [] OTHER -> prevOff

\* The first switch of outputDisplay: digitOffTime of a slot.
OffTimeOf(tmpDispType, blink, offCount, prevOff) ==
  CASE tmpDispType = BLANKED -> DIGIT_DISPLAY_ON
    [] tmpDispType = DIMMED -> DIM_VALUE
    [] tmpDispType = BRIGHT -> DIGIT_DISPLAY_OFF
    [] tmpDispType \in {FADE, NORMAL, SCROLL} -> offCount
    [] tmpDispType = BLINK -> IF blink THEN offCount ELSE DIGIT_DISPLAY_ON
    [] OTHER -> prevOff

\* A scrollback test that a blanked display is exempt from.
EffectiveTypeUnlessBlanked(target, curr, dType, isBlanked, sb) ==
  IF isBlanked THEN BLANKED
  ELSE IF target # curr /\ target = 0 /\ sb THEN SCROLL
  ELSE dType

\* The display type a slot's transition is processed with: the global
\* blanked flag overrides the configured type, and the scrollback test
\* overrides both.
EffectiveType(target, curr, dType, isBlanked, sb) ==
  IF target # curr /\ target = 0 /\ sb THEN SCROLL
  ELSE IF isBlanked THEN BLANKED ELSE dType

\* A scroll that restarts its countdown one step too high.
ScrollBranchSlow(target, curr, fs, sSteps) ==
  IF target # curr
  THEN LET f1 == IF fs = 0 THEN Byte(sSteps + 1) ELSE fs
       IN  IF f1 = 1 THEN [c |-> Byte(curr - 1), f |-> 0, sw |-> DIGIT_DISPLAY_OFF]
           ELSE IF f1 > 1 THEN [c |-> curr, f |-> f1 - 1, sw |-> DIGIT_DISPLAY_OFF]
           ELSE [c |-> curr, f |-> f1, sw |-> DIGIT_DISPLAY_OFF]
  ELSE [c |-> curr, f |-> fs, sw |-> DIGIT_DISPLAY_OFF]

\* The SCROLL branch: new (currNumberArray[i], fadeState[i], digitSwitchTime).
ScrollBranch(target, curr, fs, sSteps) ==
  IF target # curr
  THEN LET f1 == IF fs = 0 THEN Byte(sSteps) ELSE fs
       IN  IF f1 = 1 THEN [c |-> Byte(curr - 1), f |-> 0, sw |-> DIGIT_DISPLAY_OFF]
           ELSE IF f1 > 1 THEN [c |-> curr, f |-> f1 - 1, sw |-> DIGIT_DISPLAY_OFF]
           ELSE [c |-> curr, f |-> f1, sw |-> DIGIT_DISPLAY_OFF]
  ELSE [c |-> curr, f |-> fs, sw |-> DIGIT_DISPLAY_OFF]

\* A fade that finishes one impression early (at fadeState 2).
FadeBranchEarly(target, curr, fs, fSteps, fStep, prevSw) ==
  LET start == target # curr /\ fs = 0
      f1 == IF start THEN Byte(fSteps) ELSE fs
      sw1 == IF start THEN Int16(f1 * fStep) ELSE prevSw
  IN  IF f1 = 1 \/ f1 = 2 THEN [c |-> target, f |-> 0, sw |-> DIGIT_DISPLAY_COUNT]
      ELSE IF f1 > 2 THEN [c |-> curr, f |-> f1 - 1, sw |-> Int16((f1 - 1) * fStep)]
      ELSE [c |-> curr, f |-> f1, sw |-> sw1]

\* A fade whose switch step is computed before the countdown is
\* decremented.
FadeBranchSwitchFirst(target, curr, fs, fSteps, fStep, prevSw) ==
  LET start == target # curr /\ fs = 0
      f1 == IF start THEN Byte(fSteps) ELSE fs
      sw1 == IF start THEN Int16(f1 * fStep) ELSE prevSw
  IN  IF f1 = 1 THEN [c |-> target, f |-> 0, sw |-> DIGIT_DISPLAY_COUNT]
      ELSE IF f1 > 1 THEN [c |-> curr, f |-> f1 - 1, sw |-> Int16(f1 * fStep)]
      ELSE [c |-> curr, f |-> f1, sw |-> sw1]

\* The FADE branch: new (currNumberArray[i], fadeState[i], digitSwitchTime);
\* prevSw is the value the local digitSwitchTime holds on entry.
FadeBranch(target, curr, fs, fSteps, fStep, prevSw) ==
  LET start == target # curr /\ fs = 0
      f1 == IF start THEN Byte(fSteps) ELSE fs
      sw1 == IF start THEN Int16(f1 * fStep) ELSE prevSw
  IN  IF f1 = 1 THEN [c |-> target, f |-> 0, sw |-> DIGIT_DISPLAY_COUNT]
      ELSE IF f1 > 1 THEN [c |-> curr, f |-> f1 - 1, sw |-> Int16((f1 - 1) * fStep)]
      ELSE [c |-> curr, f |-> f1, sw |-> sw1]

\* A snap that switches the decoder at the last step of the display range.
SnapBranchAtOff(target, fs) == [c |-> target, f |-> fs, sw |-> DIGIT_DISPLAY_OFF]

\* Every other display type: the current value snaps to the target; the
\* fade state is not touched.
SnapBranch(target, fs) == [c |-> target, f |-> fs, sw |-> DIGIT_DISPLAY_COUNT]

\* A transition that fades every display type but SCROLL.
TransitionFadeAll(tmpDispType, target, curr, fs, fSteps, fStep, sSteps, prevSw) ==
  IF tmpDispType = SCROLL THEN ScrollBranch(target, curr, fs, sSteps)
  ELSE FadeBranch(target, curr, fs, fSteps, fStep, prevSw)

\* The transition part of one slot of outputDisplay.
Transition(tmpDispType, target, curr, fs, fSteps, fStep, sSteps, prevSw) ==
  IF tmpDispType = SCROLL THEN ScrollBranch(target, curr, fs, sSteps)
  ELSE IF tmpDispType = FADE THEN FadeBranch(target, curr, fs, fSteps, fStep, prevSw)
  ELSE SnapBranch(target, fs)

\* The anode lines. digitOn: "PORTC = PORTC | B00001000" for digit 0,
\* B00000100 for digit 1, "PORTD = PORTD | B00010000" for digit 2, then
\* B00000100, B00000010 and B00000001; any other digit sets no line.
AnodeOn(ports, digit) ==
  CASE digit = 0 -> [ports EXCEPT !.c = @ \cup {8}]
    [] digit = 1 -> [ports EXCEPT !.c = @ \cup {4}]
    [] digit = 2 -> [ports EXCEPT !.d = @ \cup {16}]
    [] digit = 3 -> [ports EXCEPT !.d = @ \cup {4}]
    [] digit = 4 -> [ports EXCEPT !.d = @ \cup {2}]
    [] digit = 5 -> [ports EXCEPT !.d = @ \cup {1}]
    [] OTHER -> ports

\* A digitOff that leaves the anode lines as they are.
AnodesKept(ports) == ports

\* digitOff: "PORTC = PORTC & B11110011; PORTD = PORTD & B11101000;"
AnodesOff(ports) == [c |-> ports.c \ {8, 4}, d |-> ports.d \ {16, 4, 2, 1}]

\* The timer loop of one slot: the anode lines after it
TimerLoopPorts(on, off, before, digit) ==
  LET onFires == on >= 0 /\ on < DIGIT_ANTI_GHOST
      offFires == off >= 0 /\ off < DIGIT_ANTI_GHOST
  IN  IF onFires /\ ~offFires THEN AnodeOn(before, digit)
      ELSE IF onFires /\ on > off THEN AnodeOn(AnodesOff(before), digit)
      ELSE IF offFires THEN AnodesOff(before)
      ELSE before

\* The timer loop of one slot: value of TCCR1A after it. digitOn (at step
\* on) sets tccrOn, digitOff (at step off) sets tccrOff; within one step
\* the on test comes first.
TimerLoopTCCR(on, off, before, vOn, vOff) ==
  LET onFires == on >= 0 /\ on < DIGIT_ANTI_GHOST
      offFires == off >= 0 /\ off < DIGIT_ANTI_GHOST
  IN  IF onFires /\ (~offFires \/ on > off) THEN vOn
      ELSE IF offFires THEN vOff
      ELSE before

\* One slot of outputDisplay. st carries the three locals and TCCR1A from
\* the previous slot; the result adds the slot's new current value and
\* fade state.
RenderSlot(s, i, st) ==
  LET dt0 == IF s.blanked THEN BLANKED ELSE s.displayType[i]
      on == OnTimeOf(dt0, s.blinkState, st.on)
      off == OffTimeOf(dt0, s.blinkState, s.digitOffCount, st.off)
      tmp == EffectiveType(s.NumberArray[i], s.currNumberArray[i], s.displayType[i],
                           s.blanked, s.scrollback)
      tr == Transition(tmp, s.NumberArray[i], s.currNumberArray[i], s.fadeState[i],
                       s.fadeSteps, s.fadeStep, s.scrollSteps, st.sw)
  IN  [on |-> on, off |-> off, sw |-> tr.sw, c |-> tr.c, f |-> tr.f,
       tccr |-> TimerLoopTCCR(on, off, st.tccr, s.tccrOn, s.tccrOff),
       ports |-> TimerLoopPorts(on, off, st.ports, i)]

\* Slot i rendered after the slots before it (prev): the results so far
\* and the locals and TCCR1A the next slot starts with.
RenderNext(s, i, prev) ==
  LET r == RenderSlot(s, i, prev.st)
  IN  [res |-> [k \in 0 .. i |-> IF k = i THEN r ELSE prev.res[k]],
       st |-> [on |-> r.on, off |-> r.off, sw |-> r.sw, tccr |-> r.tccr,
               ports |-> r.ports]]

\* The six slots in order; garbage is the indeterminate value the
\* uninitialised locals hold on entry. The result of the slots before is
\* taken as one value.
RECURSIVE RenderUpTo(_, _, _)
RenderUpTo(s, i, garbage) ==
  IF i < 0
  THEN [res |-> [k \in {} |-> 0],
        st |-> [on |-> garbage, off |-> garbage, sw |-> garbage, tccr |-> s.TCCR1A,
                ports |-> [c |-> s.PORTC, d |-> s.PORTD]]]
  ELSE CHOOSE next \in {RenderNext(s, i, prev) : prev \in {RenderUpTo(s, i - 1, garbage)}} :
         TRUE

\* History of the transition a slot is in, kept beside the program state:
\* kind of transition, impressions rendered since it started from idle,
\* the current value and target it started with and the step count then
\* configured. It is dropped as soon as the target, the effective display
\* type or (for a scroll) scrollSteps changes. An impression that takes
\* the branch of the other display types with a target that differs from
\* the current value is recorded as a "snap".
NoOp == [op |-> "none", arg |-> 0, n |-> 0, press |-> FALSE]

NoHist == [kind |-> "none", n |-> 0, from |-> 0, to |-> 0, steps |-> 0]

HistAfter(s, i) ==
  LET h == s.hist[i]
      t == s.NumberArray[i]
      c == s.currNumberArray[i]
      tmp == EffectiveType(t, c, s.displayType[i], s.blanked, s.scrollback)
      idleStart == s.fadeState[i] = 0 /\ t # c
  IN  IF h.kind = "fade" /\ tmp = FADE /\ t = h.to /\ h.n < h.steps
      THEN [h EXCEPT !.n = h.n + 1]
      ELSE IF h.kind = "scroll" /\ tmp = SCROLL /\ t = 0 /\ c # 0
              /\ s.scrollSteps = h.steps
      THEN [h EXCEPT !.n = h.n + 1]
      ELSE IF idleStart /\ tmp = FADE
      THEN [kind |-> "fade", n |-> 1, from |-> c, to |-> t, steps |-> s.fadeSteps]
      ELSE IF idleStart /\ tmp = SCROLL
      THEN [kind |-> "scroll", n |-> 1, from |-> c, to |-> t, steps |-> s.scrollSteps]
      ELSE IF t # c /\ tmp \notin {FADE, SCROLL}
      THEN [kind |-> "snap", n |-> 1, from |-> c, to |-> t, steps |-> 0]
      ELSE NoHist

\* An impression whose blink counter wraps one impression early.
outputDisplayBlinkEarly(s, garbage) ==
  LET bc == s.blinkCounter + 1
      After(r) ==
        [s EXCEPT
          !.currNumberArray = [i \in Slots |-> r.res[i].c],
          !.fadeState = [i \in Slots |-> r.res[i].f],
          !.digitOnTime = [i \in Slots |-> r.res[i].on],
          !.digitOffTime = [i \in Slots |-> r.res[i].off],
          !.digitSwitchTime = [i \in Slots |-> r.res[i].sw],
          !.TCCR1A = r.st.tccr,
          !.PORTC = r.st.ports.c,
          !.PORTD = r.st.ports.d,
          !.blinkCounter = IF bc = BLINK_COUNT_MAX - 1 THEN 0 ELSE bc,
          !.blinkState = IF bc = BLINK_COUNT_MAX - 1 THEN ~s.blinkState ELSE s.blinkState,
          !.hist = [i \in Slots |-> HistAfter(s, i)]]
  IN  CHOOSE next \in {After(r) : r \in {RenderUpTo(s, 5, garbage)}} : TRUE

\* outputDisplay: one impression
outputDisplay(s, garbage) ==
  LET bc == s.blinkCounter + 1
      After(r) ==
        [s EXCEPT
          !.currNumberArray = [i \in Slots |-> r.res[i].c],
          !.fadeState = [i \in Slots |-> r.res[i].f],
          !.digitOnTime = [i \in Slots |-> r.res[i].on],
          !.digitOffTime = [i \in Slots |-> r.res[i].off],
          !.digitSwitchTime = [i \in Slots |-> r.res[i].sw],
          !.TCCR1A = r.st.tccr,
          !.PORTC = r.st.ports.c,
          !.PORTD = r.st.ports.d,
          !.blinkCounter = IF bc = BLINK_COUNT_MAX THEN 0 ELSE bc,
          !.blinkState = IF bc = BLINK_COUNT_MAX THEN ~s.blinkState ELSE s.blinkState,
          !.hist = [i \in Slots |-> HistAfter(s, i)]]
  IN  CHOOSE next \in {After(r) : r \in {RenderUpTo(s, 5, garbage)}} : TRUE

\* digitOn: sets the anode of the digit, the decoder value and turns the
\* HV generator on
digitOn(s, digit, value) ==
  LET ports == AnodeOn([c |-> s.PORTC, d |-> s.PORTD], digit)
  IN  [s EXCEPT !.PORTC = ports.c, !.PORTD = ports.d, !.TCCR1A = s.tccrOn]

\* digitOff: turns the HV generator and all anodes off
digitOff(s) ==
  LET ports == AnodesOff([c |-> s.PORTC, d |-> s.PORTD])
  IN  [s EXCEPT !.TCCR1A = s.tccrOff, !.PORTC = ports.c, !.PORTD = ports.d]

\* ---------------------------------------------------------------------
\* Loading the six target digits
\* ---------------------------------------------------------------------
\* A clock reading: the values the displayDate getters return.
\* [hours, mins, secs, days, months, years, whole, fract]
Digits6(d0, d1, d2, d3, d4, d5) ==
  [i \in Slots |-> Byte(CASE i = 0 -> d0 [] i = 1 -> d1 [] i = 2 -> d2
                          [] i = 3 -> d3 [] i = 4 -> d4 [] OTHER -> d5)]

loadNumberArrayTime(s, t) ==
  [s EXCEPT !.NumberArray =
     Digits6(t.hours \div 10, t.hours % 10, t.mins \div 10, t.mins % 10,
             t.secs \div 10, t.secs % 10)]

loadNumberArray8s(s) == [s EXCEPT !.NumberArray = Digits6(8, 8, 8, 8, 8, 8)]

loadNumberArrayDate(s, t) ==
  [s EXCEPT !.NumberArray =
     CASE s.dateFormat = 0 ->
            Digits6(t.years \div 10, t.years % 10, t.months \div 10, t.months % 10,
                    t.days \div 10, t.days % 10)
       [] s.dateFormat = 1 ->
            Digits6(t.months \div 10, t.months % 10, t.days \div 10, t.days % 10,
                    t.years \div 10, t.years % 10)
       [] s.dateFormat = 2 ->
            Digits6(t.days \div 10, t.days % 10, t.months \div 10, t.months % 10,
                    t.years \div 10, t.years % 10)
       [] OTHER -> s.NumberArray]

loadNumberArrayTemp(s, t, confNum) ==
  [s EXCEPT !.NumberArray =
     Digits6(CDiv(t.whole, 10), CMod(t.whole, 10), CDiv(t.fract, 10), CMod(t.fract, 10),
             CMod(CDiv(confNum, 10), 10), CMod(confNum, 10))]

loadNumberArrayLDR(s) ==
  [s EXCEPT !.NumberArray =
     Digits6((s.digitOffCount \div 1000) % 10, (s.digitOffCount \div 100) % 10,
             (s.digitOffCount \div 10) % 10, s.digitOffCount % 10, 0, 0)]

loadNumberArrayTestDigits(s, t) ==
  [s EXCEPT !.NumberArray =
     Digits6((t.secs + 5) % 10, (t.secs + 4) % 10, (t.secs + 3) % 10,
             (t.secs + 2) % 10, (t.secs + 1) % 10, t.secs % 10)]

loadNumberArrayACP(s, t) ==
  [s EXCEPT !.NumberArray =
     Digits6((t.hours \div 10 + s.acpOffset) % 10, (t.hours + s.acpOffset) % 10,
             (t.mins \div 10 + s.acpOffset) % 10, (t.mins + s.acpOffset) % 10,
             (t.secs \div 10 + s.acpOffset) % 10, (t.secs + s.acpOffset) % 10)]

loadNumberArrayConfInt(s, confValue, confNum) ==
  [s EXCEPT !.NumberArray =
     Digits6(CMod(CDiv(confValue, 1000), 10), CMod(CDiv(confValue, 100), 10),
             CMod(CDiv(confValue, 10), 10), CMod(confValue, 10),
             CMod(CDiv(confNum, 10), 10), CMod(confNum, 10))]

loadNumberArrayConfBool(s, confValue, confNum) ==
  [s EXCEPT !.NumberArray =
     Digits6(0, 0, 0, IF confValue THEN 1 ELSE 0,
             CMod(CDiv(confNum, 10), 10), CMod(confNum, 10))]

\* ---------------------------------------------------------------------
\* Display presets
\* ---------------------------------------------------------------------
Preset(s, t0, t1, t2, t3, t4, t5) ==
  [s EXCEPT !.displayType =
     [i \in Slots |-> CASE i = 0 -> t0 [] i = 1 -> t1 [] i = 2 -> t2
                        [] i = 3 -> t3 [] i = 4 -> t4 [] OTHER -> t5]]

allFade(s) == Preset(s, FADE, FADE, FADE, FADE, FADE, FADE)
allBright(s) == Preset(s, BRIGHT, BRIGHT, BRIGHT, BRIGHT, BRIGHT, BRIGHT)
allNormal(s) == Preset(s, NORMAL, NORMAL, NORMAL, NORMAL, NORMAL, NORMAL)
highlight0and1(s) == Preset(s, BRIGHT, BRIGHT, DIMMED, DIMMED, DIMMED, DIMMED)
highlight2and3(s) == Preset(s, DIMMED, DIMMED, BRIGHT, BRIGHT, DIMMED, DIMMED)
highlight4and5(s) == Preset(s, DIMMED, DIMMED, DIMMED, DIMMED, BRIGHT, BRIGHT)
displayConfig(s) == Preset(s, BRIGHT, BRIGHT, BRIGHT, BRIGHT, BLINK, BLINK)

highlightYearsDateFormat(s) ==
  CASE s.dateFormat = 0 -> highlight0and1(s)
    [] s.dateFormat \in {1, 2} -> highlight4and5(s)
    [] OTHER -> s

highlightMonthsDateFormat(s) ==
  CASE s.dateFormat \in {0, 2} -> highlight2and3(s)
    [] s.dateFormat = 1 -> highlight0and1(s)
    [] OTHER -> s

highlightDaysDateFormat(s) ==
  CASE s.dateFormat = 0 -> highlight4and5(s)
    [] s.dateFormat = 1 -> highlight2and3(s)
    [] s.dateFormat = 2 -> highlight0and1(s)
    [] OTHER -> s

applyBlanking(s) ==
  IF ~s.blankLeading THEN s
  ELSE IF s.NumberArray[0] = 0
       THEN [s EXCEPT !.displayType = [s.displayType EXCEPT ![0] = BLANKED]]
       ELSE s

\* ---------------------------------------------------------------------
\* EEPROM
\* ---------------------------------------------------------------------
EECells == {EE_FADE_STEPS, EE_DATE_FORMAT, EE_DAY_BLANKING, EE_BLANK_LEAD_ZERO,
            EE_SCROLLBACK, EE_PULSE_LO, EE_PULSE_HI, EE_SCROLL_STEPS,
            EE_BACKLIGHT_MODE, EE_HV_VOLTAGE, EE_PWM_TOP_LO, EE_PWM_TOP_HI,
            EE_HVG_NEED_CALIB, EE_DIM_DARK_LO, EE_DIM_DARK_HI, EE_DIM_BRIGHT_LO,
            EE_DIM_BRIGHT_HI, EE_DIM_SMOOTH_SPEED}

BoolByte(b) == IF b THEN 1 ELSE 0

\* EEPROM.write of one cell
EEWrite(s, cell, value) == [s EXCEPT !.EEPROM = [s.EEPROM EXCEPT ![cell] = Byte(value)]]

\* A value read from a cell, replaced by the default when out of range
InRangeOr(v, lo, hi, default) == IF v < lo \/ v > hi THEN default ELSE v

\* saveEEPROMValues (the cells the model keeps)
saveEEPROMValues(s) ==
  [s EXCEPT !.EEPROM =
     [cell \in EECells |->
        CASE cell = EE_FADE_STEPS -> Byte(s.fadeSteps)
          [] cell = EE_DATE_FORMAT -> Byte(s.dateFormat)
          [] cell = EE_DAY_BLANKING -> Byte(s.dayBlanking)
          [] cell = EE_BLANK_LEAD_ZERO -> BoolByte(s.blankLeading)
          [] cell = EE_SCROLLBACK -> BoolByte(s.scrollback)
          [] cell = EE_SCROLL_STEPS -> Byte(s.scrollSteps)
          [] cell = EE_BACKLIGHT_MODE -> Byte(s.backlightMode)
          [] cell = EE_HV_VOLTAGE -> Byte(s.hvTargetVoltage)
          [] cell = EE_PULSE_LO -> Byte(CMod(s.pwmOn, 256))
          [] cell = EE_PULSE_HI -> Byte(CDiv(s.pwmOn, 256))
          [] cell = EE_PWM_TOP_LO -> Byte(CMod(s.pwmTop, 256))
          [] cell = EE_PWM_TOP_HI -> Byte(CDiv(s.pwmTop, 256))
          [] cell = EE_DIM_DARK_LO -> Byte(CMod(s.dimDark, 256))
          [] cell = EE_DIM_DARK_HI -> Byte(CDiv(s.dimDark, 256))
          [] cell = EE_DIM_BRIGHT_LO -> Byte(CMod(s.dimBright, 256))
          [] cell = EE_DIM_BRIGHT_HI -> Byte(CDiv(s.dimBright, 256))
          [] cell = EE_DIM_SMOOTH_SPEED -> Byte(s.sensorSmoothCountLDR)
          [] OTHER -> s.EEPROM[cell]]]

\* readEEPROMValues (the variables the model keeps)
readEEPROMValues(s) ==
  LET e == s.EEPROM
      on == Int16(e[EE_PULSE_HI] * 256 + e[EE_PULSE_LO])
      onBad == on < PWM_PULSE_MIN \/ on > PWM_PULSE_MAX
      top == Int16(e[EE_PWM_TOP_HI] * 256 + e[EE_PWM_TOP_LO])
      topBad == top < PWM_TOP_MIN \/ top > PWM_TOP_MAX
  IN  [s EXCEPT
        !.fadeSteps = InRangeOr(e[EE_FADE_STEPS], FADE_STEPS_MIN, FADE_STEPS_MAX,
                                FADE_STEPS_DEFAULT),
        !.dateFormat = InRangeOr(e[EE_DATE_FORMAT], DATE_FORMAT_MIN, DATE_FORMAT_MAX,
                                 DATE_FORMAT_DEFAULT),
        !.dayBlanking = InRangeOr(e[EE_DAY_BLANKING], DAY_BLANKING_MIN, DAY_BLANKING_MAX,
                                  DAY_BLANKING_DEFAULT),
        !.blankLeading = e[EE_BLANK_LEAD_ZERO] # 0,
        !.scrollback = e[EE_SCROLLBACK] # 0,
        !.scrollSteps = InRangeOr(e[EE_SCROLL_STEPS], SCROLL_STEPS_MIN, SCROLL_STEPS_MAX,
                                  SCROLL_STEPS_DEFAULT),
        !.backlightMode = InRangeOr(e[EE_BACKLIGHT_MODE], BACKLIGHT_MIN, BACKLIGHT_MAX,
                                    BACKLIGHT_DEFAULT),
        !.hvTargetVoltage = InRangeOr(e[EE_HV_VOLTAGE], HVGEN_TARGET_VOLTAGE_MIN,
                                      HVGEN_TARGET_VOLTAGE_MAX,
                                      HVGEN_TARGET_VOLTAGE_DEFAULT),
        !.dimDark = InRangeOr(Int16(e[EE_DIM_DARK_HI] * 256 + e[EE_DIM_DARK_LO]),
                              SENSOR_LOW_MIN, SENSOR_LOW_MAX, SENSOR_LOW_DEFAULT),
        !.dimBright = InRangeOr(Int16(e[EE_DIM_BRIGHT_HI] * 256 + e[EE_DIM_BRIGHT_LO]),
                                SENSOR_HIGH_MIN, SENSOR_HIGH_MAX, SENSOR_HIGH_DEFAULT),
        !.sensorSmoothCountLDR = InRangeOr(e[EE_DIM_SMOOTH_SPEED],
                                           SENSOR_SMOOTH_READINGS_MIN,
                                           SENSOR_SMOOTH_READINGS_MAX,
                                           SENSOR_SMOOTH_READINGS_DEFAULT),
        !.pwmOn = IF onBad THEN PWM_PULSE_DEFAULT ELSE on,
        !.pwmTop = IF topBad THEN PWM_TOP_DEFAULT ELSE top,
        !.EEPROM = IF onBad \/ topBad THEN [e EXCEPT ![EE_HVG_NEED_CALIB] = 1] ELSE e]

\* factoryReset
factoryReset(s) ==
  saveEEPROMValues(
    [s EXCEPT !.blankLeading = FALSE, !.scrollback = TRUE,
              !.fadeSteps = FADE_STEPS_DEFAULT, !.dateFormat = DATE_FORMAT_DEFAULT,
              !.dayBlanking = DAY_BLANKING_DEFAULT, !.scrollSteps = SCROLL_STEPS_DEFAULT,
              !.backlightMode = BACKLIGHT_DEFAULT,
              !.hvTargetVoltage = HVGEN_TARGET_VOLTAGE_DEFAULT,
              !.dimDark = SENSOR_LOW_DEFAULT, !.dimBright = SENSOR_HIGH_DEFAULT,
              !.sensorSmoothCountLDR = SENSOR_SMOOTH_READINGS_DEFAULT,
              !.pwmOn = PWM_PULSE_DEFAULT, !.pwmTop = PWM_TOP_DEFAULT])

\* ---------------------------------------------------------------------
\* I2C interface: the handlers of the bus interrupts
\* ---------------------------------------------------------------------
\* A receiveEvent that restarts the fades when the fade steps are set.
receiveEventRestartsFade(s, operation, b) ==
  IF operation = I2C_SET_OPTION_FADE_STEPS
  THEN EEWrite([s EXCEPT !.fadeSteps = b, !.fadeState = [i \in Slots |-> 0]],
               EE_FADE_STEPS, b)
  ELSE s

\* receiveEvent with the operation byte and the byte b that follows it
\* (Wire.read() gives -1 when the message has no further byte). The
\* messages that set the time, the hour mode, the ACP suppression, the
\* blanking hours, the colour channels and the cycle speed are not
\* followed.
receiveEvent(s, operation, b) ==
  CASE operation = I2C_SET_OPTION_BLANK_LEAD ->
         EEWrite([s EXCEPT !.blankLeading = (Byte(b) = 1)], EE_BLANK_LEAD_ZERO,
                 BoolByte(Byte(b) = 1))
    [] operation = I2C_SET_OPTION_SCROLLBACK ->
         EEWrite([s EXCEPT !.scrollback = (Byte(b) = 1)], EE_SCROLLBACK,
                 BoolByte(Byte(b) = 1))
    [] operation = I2C_SET_OPTION_DATE_FORMAT ->
         EEWrite([s EXCEPT !.dateFormat = Byte(b)], EE_DATE_FORMAT, Byte(b))
    [] operation = I2C_SET_OPTION_DAY_BLANKING ->
         EEWrite([s EXCEPT !.dayBlanking = Byte(b)], EE_DAY_BLANKING, Byte(b))
    [] operation = I2C_SET_OPTION_FADE_STEPS ->
         EEWrite([s EXCEPT !.fadeSteps = b], EE_FADE_STEPS, b)
    [] operation = I2C_SET_OPTION_SCROLL_STEPS ->
         EEWrite([s EXCEPT !.scrollSteps = b], EE_SCROLL_STEPS, b)
    [] operation = I2C_SET_OPTION_BACKLIGHT_MODE ->
         EEWrite([s EXCEPT !.backlightMode = Byte(b)], EE_BACKLIGHT_MODE, Byte(b))
    [] OTHER -> s

\* requestEvent: the sixteen bytes written to the master (those of the
\* variables the model keeps; the others are shown as 0)
encodeBooleanForI2C(valueToProcess) == IF valueToProcess THEN 1 ELSE 0

requestEvent(s) ==
  <<0, encodeBooleanForI2C(s.blankLeading), encodeBooleanForI2C(s.scrollback), 0,
    Byte(s.dateFormat), Byte(s.dayBlanking), 0, 0, Byte(s.fadeSteps),
    Byte(s.scrollSteps), Byte(s.backlightMode), 0, 0, 0, 0, 27>>

\* ---------------------------------------------------------------------
\* Initial state: the global initialisers, before setup() runs
\* ---------------------------------------------------------------------
\* struct Button
\* ---------------------------------------------------------------------
\* "const byte debounceCounter = 5"
debounceCounter == 5

\* The fields of a Button after construction
ButtonNew ==
  [button1PressedCount |-> 0, button1PressStartMillis |-> 0, buttonWasReleased |-> FALSE,
   buttonPress8S |-> FALSE, buttonPress2S |-> FALSE, buttonPress1S |-> FALSE,
   buttonPress |-> FALSE,
   buttonPressRelease8S |-> FALSE, buttonPressRelease2S |-> FALSE,
   buttonPressRelease1S |-> FALSE, buttonPressRelease |-> FALSE]

\* The four press flags
PressFlags(b, f8, f2, f1, f) ==
  [b EXCEPT !.buttonPress8S = f8, !.buttonPress2S = f2, !.buttonPress1S = f1,
            !.buttonPress = f]

\* A release branch that reports a press of any length as a short press.
ReleaseFlagsAllShort(b) ==
  LET c == [b EXCEPT !.buttonPressRelease8S = FALSE, !.buttonPressRelease2S = FALSE,
                     !.buttonPressRelease1S = FALSE, !.buttonPressRelease = FALSE]
  IN  IF b.buttonPress THEN [c EXCEPT !.buttonPressRelease = TRUE] ELSE c

\* The release branch of checkButtonInternal for a debounced button: the
\* four release flags are cleared and the one of the longest press flag
\* is set
ReleaseFlags(b) ==
  LET c == [b EXCEPT !.buttonPressRelease8S = FALSE, !.buttonPressRelease2S = FALSE,
                     !.buttonPressRelease1S = FALSE, !.buttonPressRelease = FALSE]
  IN  IF b.buttonPress8S THEN [c EXCEPT !.buttonPressRelease8S = TRUE]
      ELSE IF b.buttonPress2S THEN [c EXCEPT !.buttonPressRelease2S = TRUE]
      ELSE IF b.buttonPress1S THEN [c EXCEPT !.buttonPressRelease1S = TRUE]
      ELSE IF b.buttonPress THEN [c EXCEPT !.buttonPressRelease = TRUE]
      ELSE c

\* checkButtonInternal; pin is what digitalRead(inputPin) returns (0 when
\* the button is pressed), now the value of nowMillis
checkButtonInternal(b, pin, now) ==
  IF pin = 0
  THEN LET b1 == [b EXCEPT !.buttonWasReleased = FALSE]
           held == now - b.button1PressStartMillis
       IN  IF b.button1PressedCount < debounceCounter
           THEN LET n == b.button1PressedCount + 1
                IN  [b1 EXCEPT !.button1PressedCount = n,
                               !.button1PressStartMillis =
                                  IF n = debounceCounter THEN now ELSE @]
           ELSE IF held > 8000 THEN PressFlags(b1, TRUE, TRUE, TRUE, TRUE)
           ELSE IF held > 2000 THEN PressFlags(b1, FALSE, TRUE, TRUE, TRUE)
           ELSE IF held > 1000 THEN PressFlags(b1, FALSE, FALSE, TRUE, TRUE)
           ELSE PressFlags(b1, FALSE, FALSE, FALSE, TRUE)
  ELSE LET b1 == IF b.button1PressedCount = debounceCounter
                 THEN ReleaseFlags([b EXCEPT !.buttonWasReleased = TRUE])
                 ELSE b
       IN  [PressFlags(b1, FALSE, FALSE, FALSE, FALSE) EXCEPT !.button1PressedCount = 0]

isButtonPressedNow(b) == b.button1PressedCount = debounceCounter

\* The four queries of a release: each returns its flag and clears it
isButtonPressedAndReleased(b) ==
  [r |-> b.buttonPressRelease, b |-> [b EXCEPT !.buttonPressRelease = FALSE]]
isButtonPressedReleased1S(b) ==
  [r |-> b.buttonPressRelease1S, b |-> [b EXCEPT !.buttonPressRelease1S = FALSE]]
isButtonPressedReleased2S(b) ==
  [r |-> b.buttonPressRelease2S, b |-> [b EXCEPT !.buttonPressRelease2S = FALSE]]
isButtonPressedReleased8S(b) ==
  [r |-> b.buttonPressRelease8S, b |-> [b EXCEPT !.buttonPressRelease8S = FALSE]]

\* ---------------------------------------------------------------------
\* struct DateTime
\* ---------------------------------------------------------------------
\* The fields of a DateTime after construction (a global object: the
\* fields the constructor does not name are zero)
DateTimeNew ==
  [hours |-> 0, mins |-> 0, secs |-> 0, deltaHours |-> 0, deltaMins |-> 0, deltaSecs |-> 0,
   years |-> 0, months |-> 0, days |-> 0, hourMode |-> FALSE, millisDate |-> 0]

\* setSyncTime: the sync point, date and time as given (byte parameters)
\* matched with the millisecond stamp; the delta fields stay as they are.
setSyncTime(d, newMillis, newYears, newMonths, newDays, newHours, newMins, newSecs) ==
  [d EXCEPT !.years = Byte(newYears), !.months = Byte(newMonths), !.days = Byte(newDays),
            !.hours = Byte(newHours), !.mins = Byte(newMins), !.secs = Byte(newSecs),
            !.millisDate = newMillis]

\* getDelta: the milliseconds since the sync point
getDelta(d, newMillis) == newMillis - d.millisDate

\* getHoursByMode: the hour as displayed, 1..12 in 12-hour mode
getHoursByMode(d, hours) ==
  IF d.hourMode
    THEN IF hours = 0 THEN 12
         ELSE IF hours > 12 THEN hours - 12
         ELSE hours
    ELSE hours

\* getHours, getHours24
getHours(d) == getHoursByMode(d, d.deltaHours)
getHours24(d) == d.deltaHours

\* setDelta as it would be without the wrap of the hours at midnight
setDeltaNoMidnight(d, newMillis) ==
  LET tmpDeltaSecs == CDiv(newMillis - d.millisDate, 1000)
      tmpSecs  == CMod(tmpDeltaSecs, 60)
      tmpMins  == CMod(CDiv(tmpDeltaSecs, 60), 60)
      tmpHours == CMod(CDiv(tmpDeltaSecs, 3600), 24)
      s0 == Byte(d.secs + tmpSecs)
      m0 == Byte(d.mins + tmpMins)
      h0 == Byte(d.hours + tmpHours)
      s1 == IF s0 > 59 THEN Byte(s0 - 60) ELSE s0
      m1 == IF s0 > 59 THEN Byte(m0 + 1) ELSE m0
      m2 == IF m1 > 59 THEN Byte(m1 - 60) ELSE m1
      h1 == IF m1 > 59 THEN Byte(h0 + 1) ELSE h0
  IN  [d EXCEPT !.deltaSecs = s1, !.deltaMins = m2, !.deltaHours = h1]

\* setDelta: the time now, the sync time plus the whole seconds since the
\* sync point, in the byte fields deltaSecs, deltaMins, deltaHours.
setDelta(d, newMillis) ==
  LET tmpDeltaSecs == CDiv(newMillis - d.millisDate, 1000)
      tmpSecs  == CMod(tmpDeltaSecs, 60)
      tmpMins  == CMod(CDiv(tmpDeltaSecs, 60), 60)
      tmpHours == CMod(CDiv(tmpDeltaSecs, 3600), 24)
      s0 == Byte(d.secs + tmpSecs)
      m0 == Byte(d.mins + tmpMins)
      h0 == Byte(d.hours + tmpHours)
      s1 == IF s0 > 59 THEN Byte(s0 - 60) ELSE s0
      m1 == IF s0 > 59 THEN Byte(m0 + 1) ELSE m0
      m2 == IF m1 > 59 THEN Byte(m1 - 60) ELSE m1
      h1 == IF m1 > 59 THEN Byte(h0 + 1) ELSE h0
      h2 == IF h1 > 23 THEN Byte(h1 - 24) ELSE h1
  IN  [d EXCEPT !.deltaSecs = s1, !.deltaMins = m2, !.deltaHours = h2]

\* getTimeInt: the time from the internal provider
getTimeInt(d, currentMillis) == setDelta(d, currentMillis)

\* updateInternalTimeDelta: the time last read becomes the sync point
updateInternalTimeDelta(d, currentMillis) ==
  setSyncTime(d, currentMillis, d.years, d.months, d.days, getHours(d), d.deltaMins, d.deltaSecs)

\* getRTCTime with useRTC set: the reading of the RTC becomes the sync
\* point; rtc is the reading [ack, years, months, days, hours, mins, secs],
\* ack telling whether the RTC acknowledged its address.
getRTCTime(d, currentMillis, rtc) ==
  IF rtc.ack
    THEN setSyncTime(d, currentMillis, rtc.years, rtc.months, rtc.days, rtc.hours, rtc.mins,
                     rtc.secs)
    ELSE d

\* ---------------------------------------------------------------------
\* TCCR1A is as the Arduino core leaves it before setup() (WGM10, bit 0,
\* set); the other Timer1 registers have their reset value.

Globals ==
  [pc |-> "boot",
   calPass |-> 0,
   calI |-> 0,
   bottomOnValue |-> 0,
   useRTC |-> FALSE,
   hvTargetVoltage |-> HVGEN_TARGET_VOLTAGE_DEFAULT,
   pwmTop |-> PWM_TOP_DEFAULT,
   pwmOn |-> PWM_PULSE_DEFAULT,
   tccrOff |-> 0,
   tccrOn |-> 0,
   rawHVADCThreshold |-> 0,
   sensorHVSmoothed |-> 0,
   TCCR1A |-> 1,
   ICR1 |-> 0,
   OCR1A |-> 0,
   NumberArray |-> [i \in Slots |-> 0],
   currNumberArray |-> [i \in Slots |-> 0],
   displayType |-> [i \in Slots |-> FADE],
   fadeState |-> [i \in Slots |-> 0],
   fadeSteps |-> FADE_STEPS_DEFAULT,
   fadeStep |-> DIGIT_DISPLAY_COUNT \div FADE_STEPS_DEFAULT,
   digitOffCount |-> DIGIT_DISPLAY_OFF,
   scrollSteps |-> SCROLL_STEPS_DEFAULT,
   scrollback |-> TRUE,
   blinkCounter |-> 0,
   blinkState |-> TRUE,
   blankLeading |-> FALSE,
   blanked |-> FALSE,
   digitOnTime |-> [i \in Slots |-> 0],
   digitOffTime |-> [i \in Slots |-> 0],
   digitSwitchTime |-> [i \in Slots |-> 0],
   currentMode |-> MODE_TIME,
   nextMode |-> MODE_TIME,
   tempDisplayMode |-> 0,
   acpOffset |-> 0,
   acpTick |-> 0,
   loopCounter |-> 0,
   dayBlanking |-> DAY_BLANKING_DEFAULT,
   backlightMode |-> BACKLIGHT_DEFAULT,
   dateFormat |-> DATE_FORMAT_DEFAULT,
   digitBurnDigit |-> 0,
   digitBurnValue |-> 0,
   secsDisplayEnd |-> "zero",
   blankSuppressedEndMillis |-> "zero",
   blankSuppressedStartMillis |-> "zero",
   blankSuppressStep |-> 0,
   PORTC |-> {},
   PORTD |-> {},
   dimDark |-> SENSOR_LOW_DEFAULT,
   dimBright |-> SENSOR_HIGH_DEFAULT,
   sensorSmoothCountLDR |-> SENSOR_SMOOTH_READINGS_DEFAULT,
   sensorLDRSmoothed |-> 0,
   nowMillis |-> 0,
   button1 |-> ButtonNew,
   displayDate |-> DateTimeNew,
   hist |-> [i \in Slots |-> NoHist],
   last |-> NoOp]

\* Power-on with the EEPROM image e
PowerOn(e) == Holds([EEPROM |-> e] @@ Globals)

\* ---------------------------------------------------------------------
\* setup(), in program order
\* ---------------------------------------------------------------------
\* The Timer1 configuration, statement by statement (the registers are
\* hardware: what they hold is in effect at once, with interrupts disabled
\* or not).
\* "TCCR1A = 0;  // disable all PWM on Timer1 whilst we set it up"
SetupTimerClear ==
  /\ pc = "boot"
  /\ Becomes([Cur EXCEPT !.TCCR1A = 0, !.pc = "timerMode"])

\* "TCCR1A = (1 << WGM11); ... tccrOff = TCCR1A;"
SetupTimerMode ==
  /\ pc = "timerMode"
  /\ Becomes([Cur EXCEPT !.TCCR1A = WGM11_BIT, !.tccrOff = WGM11_BIT, !.pc = "timerOn"])

\* "TCCR1A |= (1 << COM1A1); tccrOn = TCCR1A;" (TCCR1A has only WGM11 set)
SetupTimerOn ==
  /\ pc = "timerOn"
  /\ Becomes([Cur EXCEPT !.TCCR1A = TCCR1A + COM1A1_BIT, !.tccrOn = TCCR1A + COM1A1_BIT,
                          !.pc = "timerOff"])

\* "// we don't need the HV yet" "TCCR1A = tccrOff;"
SetupTimerOff ==
  /\ pc = "timerOff"
  /\ Becomes([Cur EXCEPT !.TCCR1A = tccrOff, !.pc = "reset"])

\* Factory reset detection: with the button held at start the
\* calibration flag is written and factoryReset() runs (ten times).
SetupFactoryReset(pressed) ==
  /\ pc = "reset"
  /\ LET s0 == Cur
         s1 == IF pressed
               THEN factoryReset(EEWrite(s0, EE_HVG_NEED_CALIB, 1))
               ELSE s0
     IN  Becomes([s1 EXCEPT !.pc = "wire"])

\* Time provider detection: the RTC answers or the clock becomes a bus
\* slave and registers receiveEvent and requestEvent.
SetupTimeProvider(rtcFound) ==
  /\ pc = "wire"
  /\ Becomes([Cur EXCEPT !.useRTC = rtcFound, !.pc = "eeprom"])

SetupReadEEPROM ==
  /\ pc = "eeprom"
  /\ Becomes([readEEPROMValues(Cur) EXCEPT !.pc = "profile"])

\* "set our PWM profile" and "HV GOOOO"
SetupPWMProfile ==
  /\ pc = "profile"
  /\ LET s1 == setPWMOnTime(Cur, pwmOn)
         s2 == setPWMTopTime(s1, s1.pwmTop)
     IN  Becomes([s2 EXCEPT !.TCCR1A = s2.tccrOn, !.pc = "hvgo"])

\* The test of the calibration flag as it would be if calibrateHVG ran on
\* every start.
SetupCalibAlways ==
  /\ pc = "hvgo"
  /\ LET s1 == [Cur EXCEPT !.rawHVADCThreshold =
                             getRawHVADCThreshold(hvTargetVoltage + 5)]
         s2 == setPWMOnTime(s1, PWM_PULSE_DEFAULT)
     IN  Becomes([s2 EXCEPT !.pc = "calib", !.calPass = 1, !.calI = 0])

\* The test of the calibration flag, and the first lines of calibrateHVG
\* when it is set.
SetupCalibCheck ==
  /\ pc = "hvgo"
  /\ IF EEPROM[EE_HVG_NEED_CALIB] # 0
     THEN LET s1 == [Cur EXCEPT !.rawHVADCThreshold =
                                   getRawHVADCThreshold(hvTargetVoltage + 5)]
              s2 == setPWMOnTime(s1, PWM_PULSE_DEFAULT)
          IN  Becomes([s2 EXCEPT !.pc = "calib", !.calPass = 1, !.calI = 0])
     ELSE Becomes([Cur EXCEPT !.pc = "finish"])

\* An iteration of pass 1 or pass 4 that is counted only once the supply
\* has reached the threshold: a loop that waits for the voltage.
CalibRegulateWait(reading, garbage) ==
  /\ pc = "calib" /\ calPass \in {1, 4} /\ calI < CALIB_PASS_ITERATIONS
  /\ \E s1 \in {allBright(loadNumberArray8s(Cur))} :
     \E s2 \in {outputDisplay(s1, garbage)} :
       \E s3 \in {checkHVVoltage(s2, reading)} :
          Becomes([s3 EXCEPT !.calI = IF reading > s3.rawHVADCThreshold
                                      THEN calI + 1 ELSE calI])

\* One iteration of the loop of pass 1 or pass 4 of calibrateHVG. The state
\* after each call is bound once, as a value.
CalibRegulateIter(reading, garbage) ==
  /\ pc = "calib" /\ calPass \in {1, 4} /\ calI < CALIB_PASS_ITERATIONS
  /\ \E s1 \in {allBright(loadNumberArray8s(Cur))} :
     \E s2 \in {outputDisplay(s1, garbage)} :
       \E s3 \in {checkHVVoltage(s2, reading)} :
          Becomes([s3 EXCEPT !.calI = calI + 1])

\* An iteration of pass 2 that steps the on time on every impression.
CalibOnTimeUpEvery(reading, garbage) ==
  /\ pc = "calib" /\ calPass = 2 /\ calI < CALIB_PASS_ITERATIONS
  /\ \E s1 \in {allBright(loadNumberArrayConfInt(Cur, pwmOn, currentMode - MODE_12_24))} :
     \E s2 \in {outputDisplay(s1, garbage)} :
       \E s3 \in {getSmoothedHVSensorReading(s2, reading)} :
          \E s4 \in {IF reading < s3.rawHVADCThreshold
                      THEN incPWMOnTime(s3) ELSE s3} :
             Becomes([s4 EXCEPT !.calI = calI + 1])

\* One iteration of the loop of pass 2: run the on time up.
CalibOnTimeUpIter(reading, garbage) ==
  /\ pc = "calib" /\ calPass = 2 /\ calI < CALIB_PASS_ITERATIONS
  /\ \E s1 \in {allBright(loadNumberArrayConfInt(Cur, pwmOn, currentMode - MODE_12_24))} :
     \E s2 \in {outputDisplay(s1, garbage)} :
       \E s3 \in {getSmoothedHVSensorReading(s2, reading)} :
          \E s4 \in {IF reading < s3.rawHVADCThreshold /\ calI % 8 = 0
                      THEN incPWMOnTime(s3) ELSE s3} :
             Becomes([s4 EXCEPT !.calI = calI + 1])

\* An iteration of pass 3 that shows the 8s of passes 1 and 4.
CalibOnTimeDown8s(reading, garbage) ==
  /\ pc = "calib" /\ calPass = 3 /\ calI < CALIB_PASS_ITERATIONS
  /\ \E s1 \in {allBright(loadNumberArray8s(Cur))} :
     \E s2 \in {outputDisplay(s1, garbage)} :
       \E s3 \in {getSmoothedHVSensorReading(s2, reading)} :
          \E s4 \in {IF reading > s3.rawHVADCThreshold /\ calI % 8 = 0
                      THEN decPWMOnTime(s3) ELSE s3} :
             Becomes([s4 EXCEPT !.calI = calI + 1])

\* An iteration of pass 3 that steps the on time on every impression.
CalibOnTimeDownEvery(reading, garbage) ==
  /\ pc = "calib" /\ calPass = 3 /\ calI < CALIB_PASS_ITERATIONS
  /\ \E s1 \in {allBright(loadNumberArrayConfInt(Cur, pwmOn, currentMode - MODE_12_24))} :
     \E s2 \in {outputDisplay(s1, garbage)} :
       \E s3 \in {getSmoothedHVSensorReading(s2, reading)} :
          \E s4 \in {IF reading > s3.rawHVADCThreshold
                      THEN decPWMOnTime(s3) ELSE s3} :
             Becomes([s4 EXCEPT !.calI = calI + 1])

\* One iteration of the loop of pass 3: run the on time down.
CalibOnTimeDownIter(reading, garbage) ==
  /\ pc = "calib" /\ calPass = 3 /\ calI < CALIB_PASS_ITERATIONS
  /\ \E s1 \in {allBright(loadNumberArrayConfInt(Cur, pwmOn, currentMode - MODE_12_24))} :
     \E s2 \in {outputDisplay(s1, garbage)} :
       \E s3 \in {getSmoothedHVSensorReading(s2, reading)} :
          \E s4 \in {IF reading > s3.rawHVADCThreshold /\ calI % 8 = 0
                      THEN decPWMOnTime(s3) ELSE s3} :
             Becomes([s4 EXCEPT !.calI = calI + 1])

\* The code between the passes as it would be if pass 4 ran with the on
\* time found by pass 3 instead of the average.
CalibNextPassTop ==
  /\ pc = "calib" /\ calI = CALIB_PASS_ITERATIONS
  /\ LET s0 == [Cur EXCEPT !.calI = 0, !.calPass = calPass + 1]
     IN  CASE calPass = 1 ->
                Becomes(setPWMOnTime(
                  [s0 EXCEPT !.rawHVADCThreshold = getRawHVADCThreshold(hvTargetVoltage)],
                  PWM_PULSE_MIN))
           [] calPass = 2 ->
                Becomes(setPWMOnTime([s0 EXCEPT !.bottomOnValue = pwmOn], pwmOn + 50))
           [] calPass = 3 ->
                LET topOnValue == pwmOn
                    s1 == setPWMOnTime(s0, topOnValue)
                IN  Becomes([s1 EXCEPT !.rawHVADCThreshold =
                                          getRawHVADCThreshold(hvTargetVoltage + 5)])
           [] calPass = 4 ->
                LET s1 == EEWrite(s0, EE_PULSE_LO, CMod(pwmOn, 256))
                    s2 == EEWrite(s1, EE_PULSE_HI, CDiv(pwmOn, 256))
                    s3 == EEWrite(s2, EE_PWM_TOP_LO, CMod(pwmTop, 256))
                    s4 == EEWrite(s3, EE_PWM_TOP_HI, CDiv(pwmTop, 256))
                    s5 == EEWrite(s4, EE_HVG_NEED_CALIB, 0)
                IN  Becomes([s5 EXCEPT !.calPass = 0, !.pc = "finish"])

\* The code between two passes of calibrateHVG, and its return to setup()
\* after pass 4, where the PWM values are saved and the flag is cleared.
CalibNextPass ==
  /\ pc = "calib" /\ calI = CALIB_PASS_ITERATIONS
  /\ LET s0 == [Cur EXCEPT !.calI = 0, !.calPass = calPass + 1]
     IN  CASE calPass = 1 ->
                Becomes(setPWMOnTime(
                  [s0 EXCEPT !.rawHVADCThreshold = getRawHVADCThreshold(hvTargetVoltage)],
                  PWM_PULSE_MIN))
           [] calPass = 2 ->
                Becomes(setPWMOnTime([s0 EXCEPT !.bottomOnValue = pwmOn], pwmOn + 50))
           [] calPass = 3 ->
                LET topOnValue == pwmOn
                    aveOnValue == CDiv(Int16(bottomOnValue + topOnValue), 2)
                    s1 == setPWMOnTime(s0, aveOnValue)
                IN  Becomes([s1 EXCEPT !.rawHVADCThreshold =
                                          getRawHVADCThreshold(hvTargetVoltage + 5)])
           [] calPass = 4 ->
                LET s1 == EEWrite(s0, EE_PULSE_LO, CMod(pwmOn, 256))
                    s2 == EEWrite(s1, EE_PULSE_HI, CDiv(pwmOn, 256))
                    s3 == EEWrite(s2, EE_PWM_TOP_LO, CMod(pwmTop, 256))
                    s4 == EEWrite(s3, EE_PWM_TOP_HI, CDiv(pwmTop, 256))
                    s5 == EEWrite(s4, EE_HVG_NEED_CALIB, 0)
                IN  Becomes([s5 EXCEPT !.calPass = 0, !.pc = "finish"])

\* The RTC, part of the environment: a DS3231 in 24-hour mode that was set
\* to RTCStart when nowMillis was 0 and keeps time by itself.
RTCStart == [years |-> 15, months |-> 10, days |-> 1, hours |-> 23, mins |-> 58, secs |-> 50]

RTCAt(now) ==
  LET secsOfDay == (RTCStart.hours * 3600 + RTCStart.mins * 60 + RTCStart.secs + (now \div 1000))
  IN  [ack |-> TRUE, years |-> RTCStart.years, months |-> RTCStart.months,
       days |-> RTCStart.days + (secsOfDay \div 86400),
       hours |-> (secsOfDay % 86400) \div 3600,
       mins |-> (secsOfDay % 3600) \div 60,
       secs |-> secsOfDay % 60]

\* The first sync point of setup(): 12:34:56 of 1.10.15, then the reading
\* of the RTC when there is one.
SetupSyncTime(s) ==
  LET d == setSyncTime(s.displayDate, s.nowMillis, 15, 10, 1, 12, 34, 56)
  IN  IF s.useRTC THEN getRTCTime(d, s.nowMillis, RTCAt(s.nowMillis)) ELSE d

\* The end of setup() as it would be without the return of the threshold
\* to the target voltage.
SetupFinishKeep ==
  /\ pc = "finish"
  /\ Becomes([Cur EXCEPT !.tempDisplayMode = TEMP_MODE_VERSION,
                         !.secsDisplayEnd = "future",
                         !.displayDate = SetupSyncTime(Cur),
                         !.pc = "loop"])

\* The end of setup(): the regulation threshold of the target voltage, the
\* version display for 1.5 s and the sync point 12:34:56 of 1.10.15, which
\* the reading of the RTC replaces when there is one.
SetupFinish ==
  /\ pc = "finish"
  /\ Becomes([Cur EXCEPT !.rawHVADCThreshold = getRawHVADCThreshold(hvTargetVoltage),
                         !.tempDisplayMode = TEMP_MODE_VERSION,
                         !.secsDisplayEnd = "future",
                         !.displayDate = SetupSyncTime(Cur),
                         !.pc = "loop"])

\* ---------------------------------------------------------------------
\* loop()
\* ---------------------------------------------------------------------
\* The inputs of one iteration, a record in:
\*   btn        what the button reports: "none", "held1S", "held2S",
\*              "rel" (short press released), "rel1S", "rel2S", "rel8S"
\*   t          the clock reading [hours, mins, secs, days, months, years,
\*              whole, fract] (whole and fract: the temperature)
\*   elapsed    the deadlines that nowMillis has passed since the last iteration
\*   nativeBlanked  the result of checkBlanking where it depends on the date
\*   hourMode, suppressACP, cfg   configuration values outside the model
\*   ldr        the value getDimmingFromLDR returns
\*   divz       the result of an integer division by zero
\*   reading    the smoothed HV sensor reading
\*   garbage    the indeterminate initial value of outputDisplay's locals
\*   clk        the position of t in the sequence of clock readings of the
\*              specification (kept in last.n; the program does not see it)

\* nowMillis = millis(): deadlines that have been passed
Tick(s, elapsed) ==
  LET pass(d, name) == IF d = "future" /\ name \in elapsed THEN "past" ELSE d
  IN  [s EXCEPT !.secsDisplayEnd = pass(s.secsDisplayEnd, "secs"),
                !.blankSuppressedEndMillis = pass(s.blankSuppressedEndMillis, "end"),
                !.blankSuppressedStartMillis = pass(s.blankSuppressedStartMillis, "start")]

\* The preview as it would be without the wrap of nextMode past MODE_MAX.
ButtonPreviewNoWrap(s, in) ==
  IF in.btn = "held2S" THEN [s EXCEPT !.nextMode = MODE_MIN]
  ELSE IF in.btn = "held1S"
  THEN [s EXCEPT !.nextMode = Byte(s.currentMode + 1)]
  ELSE s

\* "Preview the next display mode"
ButtonPreview(s, in) ==
  IF in.btn = "held2S" THEN [s EXCEPT !.nextMode = MODE_MIN]
  ELSE IF in.btn = "held1S"
  THEN LET n == Byte(s.currentMode + 1)
       IN  [s EXCEPT !.nextMode = IF n > MODE_MAX THEN MODE_MIN ELSE n]
  ELSE s

\* "Set the display mode"
SetMode(s, in) ==
  IF in.btn = "rel8S"
  THEN LET m == IF s.currentMode = MODE_DIGIT_BURN THEN MODE_MIN ELSE MODE_DIGIT_BURN
       IN  [s EXCEPT !.currentMode = m, !.nextMode = m]
  ELSE IF in.btn = "rel2S"
  THEN [allFade(saveEEPROMValues([s EXCEPT !.currentMode = MODE_MIN]))
          EXCEPT !.nextMode = MODE_MIN]
  ELSE IF in.btn = "rel1S"
  THEN LET m == Byte(s.currentMode + 1)
       IN  IF m > MODE_MAX
           THEN [allFade(saveEEPROMValues([s EXCEPT !.currentMode = MODE_MIN]))
                   EXCEPT !.nextMode = MODE_MIN]
           ELSE [s EXCEPT !.currentMode = m, !.nextMode = m]
  ELSE s

\* nextMode++ ; currentMode++ (both bytes)
SkipMode(s) == [s EXCEPT !.nextMode = Byte(s.nextMode + 1),
                         !.currentMode = Byte(s.currentMode + 1)]

InCycle(s) == s.backlightMode = BACKLIGHT_CYCLE \/ s.backlightMode = BACKLIGHT_CYCLE_DIM

\* The body of "if (nextMode == m)" in the preview branch of loop()
PreviewCase(s, m, in) ==
  LET num(x) == x.nextMode - MODE_12_24
  IN  CASE m = MODE_TIME -> allFade(loadNumberArrayTime(s, in.t))
        [] m = MODE_HOURS_SET -> highlight0and1(loadNumberArrayTime(s, in.t))
        [] m = MODE_MINS_SET -> highlight2and3(loadNumberArrayTime(s, in.t))
        [] m = MODE_DAYS_SET -> highlightDaysDateFormat(loadNumberArrayDate(s, in.t))
        [] m = MODE_MONTHS_SET -> highlightMonthsDateFormat(loadNumberArrayDate(s, in.t))
        [] m = MODE_YEARS_SET -> highlightYearsDateFormat(loadNumberArrayDate(s, in.t))
        [] m = MODE_12_24 -> displayConfig(loadNumberArrayConfBool(s, in.hourMode, num(s)))
        [] m = MODE_LEAD_BLANK ->
             displayConfig(loadNumberArrayConfBool(s, s.blankLeading, num(s)))
        [] m = MODE_SCROLLBACK ->
             displayConfig(loadNumberArrayConfBool(s, s.scrollback, num(s)))
        [] m = MODE_DATE_FORMAT ->
             displayConfig(loadNumberArrayConfInt(s, s.dateFormat, num(s)))
        [] m = MODE_DAY_BLANKING ->
             displayConfig(loadNumberArrayConfInt(s, s.dayBlanking, num(s)))
        [] m = MODE_HR_BLNK_START ->
             LET s1 == IF s.dayBlanking < DAY_BLANKING_HOURS
                       THEN SkipMode(SkipMode(s)) ELSE s
             IN  displayConfig(loadNumberArrayConfInt(s1, in.cfg, num(s1)))
        [] m = MODE_HR_BLNK_END -> displayConfig(loadNumberArrayConfInt(s, in.cfg, num(s)))
        [] m = MODE_SUPPRESS_ACP ->
             displayConfig(loadNumberArrayConfBool(s, in.suppressACP, num(s)))
        [] m \in {MODE_FADE_STEPS_UP, MODE_FADE_STEPS_DOWN} ->
             displayConfig(loadNumberArrayConfInt(s, s.fadeSteps, num(s)))
        [] m \in {MODE_DISPLAY_SCROLL_STEPS_UP, MODE_DISPLAY_SCROLL_STEPS_DOWN} ->
             displayConfig(loadNumberArrayConfInt(s, s.scrollSteps, num(s)))
        [] m = MODE_BACKLIGHT_MODE ->
             displayConfig(loadNumberArrayConfInt(s, s.backlightMode, num(s)))
        [] m \in {MODE_RED_CNL, MODE_GRN_CNL, MODE_BLU_CNL} ->
             LET s1 == IF InCycle(s) THEN SkipMode(s) ELSE s
             IN  displayConfig(loadNumberArrayConfInt(s1, in.cfg, num(s1)))
        [] m = MODE_CYCLE_SPEED ->
             LET s1 == IF ~InCycle(s) THEN SkipMode(s) ELSE s
             IN  displayConfig(loadNumberArrayConfInt(s1, in.cfg, num(s1)))
        [] m \in {MODE_TARGET_HV_UP, MODE_TARGET_HV_DOWN} ->
             displayConfig(loadNumberArrayConfInt(s, s.hvTargetVoltage, num(s)))
        [] m \in {MODE_PULSE_UP, MODE_PULSE_DOWN} ->
             displayConfig(loadNumberArrayConfInt(s, s.pwmOn, num(s)))
        [] m = MODE_TEMP -> displayConfig(loadNumberArrayTemp(s, in.t, num(s)))
        [] m = MODE_VERSION ->
             displayConfig(loadNumberArrayConfInt(s, SOFTWARE_VERSION, num(s)))
        [] m = MODE_TUBE_TEST -> allNormal(loadNumberArrayTestDigits(s, in.t))
        [] OTHER -> s

\* The order of the "if (nextMode == ...)" statements
PreviewOrder ==
  <<MODE_TIME, MODE_HOURS_SET, MODE_MINS_SET, MODE_DAYS_SET, MODE_MONTHS_SET,
    MODE_YEARS_SET, MODE_12_24, MODE_LEAD_BLANK, MODE_SCROLLBACK, MODE_DATE_FORMAT,
    MODE_DAY_BLANKING, MODE_HR_BLNK_START, MODE_HR_BLNK_END, MODE_SUPPRESS_ACP,
    MODE_FADE_STEPS_UP, MODE_FADE_STEPS_DOWN, MODE_DISPLAY_SCROLL_STEPS_UP,
    MODE_DISPLAY_SCROLL_STEPS_DOWN, MODE_BACKLIGHT_MODE, MODE_RED_CNL, MODE_GRN_CNL,
    MODE_BLU_CNL, MODE_CYCLE_SPEED, MODE_TARGET_HV_UP, MODE_TARGET_HV_DOWN,
    MODE_PULSE_UP, MODE_PULSE_DOWN, MODE_TEMP, MODE_VERSION, MODE_TUBE_TEST,
    MODE_DIGIT_BURN>>

RECURSIVE PreviewChain(_, _, _)
PreviewChain(s, k, in) ==
  IF k > Len(PreviewOrder) THEN s
  ELSE PreviewChain(IF s.nextMode = PreviewOrder[k]
                    THEN PreviewCase(s, PreviewOrder[k], in) ELSE s,
                    k + 1, in)

\* button1.isButtonPressedAndReleased(): the flag is cleared by the call
\* that finds it set. s.short is that flag.
Consume(s) == [s EXCEPT !.short = FALSE]

\* x + 1, wrapped back to lo when it passes hi
WrapUp(x, step, lo, hi) == IF x + step > hi THEN lo ELSE x + step
WrapDown(x, step, lo, hi) == IF x - step < lo THEN hi ELSE x - step

\* incMins, incHours: the time last read, one minute (with the seconds at
\* 0) or one hour later, becomes the sync point. setRTC, which writes it to
\* the RTC, is outside the model.
incMins(s) ==
  LET d == s.displayDate
      tmpMins == IF Byte(d.deltaMins + 1) >= MINS_MAX THEN 0 ELSE Byte(d.deltaMins + 1)
  IN  [s EXCEPT !.displayDate =
         setSyncTime(d, s.nowMillis, d.years, d.months, d.days, getHours24(d), tmpMins, 0)]

incHours(s) ==
  LET d == s.displayDate
      tmpHours == IF Byte(getHours24(d) + 1) >= HOURS_MAX THEN 0 ELSE Byte(getHours24(d) + 1)
  IN  [s EXCEPT !.displayDate =
         setSyncTime(d, s.nowMillis, d.years, d.months, d.days, tmpHours, d.deltaMins,
                     d.deltaSecs)]

\* The body of "if (currentMode == m)" in the settings branch of loop()
SettingsCase(s, m, in) ==
  LET num(x) == x.currentMode - MODE_12_24
      p == s.short
      c == Consume(s)
  IN  CASE m = MODE_MINS_SET ->
             highlight2and3(loadNumberArrayTime(IF p THEN incMins(c) ELSE c, in.t))
        [] m = MODE_HOURS_SET ->
             highlight0and1(loadNumberArrayTime(IF p THEN incHours(c) ELSE c, in.t))
        [] m = MODE_DAYS_SET -> highlightDaysDateFormat(loadNumberArrayDate(c, in.t))
        [] m = MODE_MONTHS_SET -> highlightMonthsDateFormat(loadNumberArrayDate(c, in.t))
        [] m = MODE_YEARS_SET -> highlightYearsDateFormat(loadNumberArrayDate(c, in.t))
        [] m = MODE_12_24 ->
             LET s1 == IF p THEN [c EXCEPT !.displayDate.hourMode = ~s.displayDate.hourMode]
                       ELSE c
             IN  displayConfig(loadNumberArrayConfBool(s1, in.hourMode, num(s1)))
        [] m = MODE_LEAD_BLANK ->
             LET s1 == IF p THEN [c EXCEPT !.blankLeading = ~s.blankLeading] ELSE c
             IN  displayConfig(loadNumberArrayConfBool(s1, s1.blankLeading, num(s1)))
        [] m = MODE_SCROLLBACK ->
             LET s1 == IF p THEN [c EXCEPT !.scrollback = ~s.scrollback] ELSE c
             IN  displayConfig(loadNumberArrayConfBool(s1, s1.scrollback, num(s1)))
        [] m = MODE_DATE_FORMAT ->
             LET s1 == IF p THEN [c EXCEPT !.dateFormat =
                                    WrapUp(Byte(s.dateFormat + 1), 0, DATE_FORMAT_MIN,
                                           DATE_FORMAT_MAX)]
                       ELSE c
             IN  displayConfig(loadNumberArrayConfInt(s1, s1.dateFormat, num(s1)))
        [] m = MODE_DAY_BLANKING ->
             LET s1 == IF p THEN [c EXCEPT !.dayBlanking =
                                    WrapUp(Byte(s.dayBlanking + 1), 0, DAY_BLANKING_MIN,
                                           DAY_BLANKING_MAX)]
                       ELSE c
             IN  displayConfig(loadNumberArrayConfInt(s1, s1.dayBlanking, num(s1)))
        [] m \in {MODE_HR_BLNK_START, MODE_HR_BLNK_END, MODE_CYCLE_SPEED} ->
             displayConfig(loadNumberArrayConfInt(c, in.cfg, num(c)))
        [] m = MODE_SUPPRESS_ACP ->
             displayConfig(loadNumberArrayConfBool(c, in.suppressACP, num(c)))
        [] m = MODE_FADE_STEPS_UP ->
             LET s1 == IF p THEN [c EXCEPT !.fadeSteps =
                                    WrapUp(s.fadeSteps, 1, FADE_STEPS_MIN, FADE_STEPS_MAX)]
                       ELSE c
                 s2 == displayConfig(loadNumberArrayConfInt(s1, s1.fadeSteps, num(s1)))
             IN  [s2 EXCEPT !.fadeStep = IF s2.fadeSteps = 0 THEN in.divz
                                         ELSE DIGIT_DISPLAY_COUNT \div s2.fadeSteps]
        [] m = MODE_FADE_STEPS_DOWN ->
             LET s1 == IF p THEN [c EXCEPT !.fadeSteps =
                                    WrapDown(s.fadeSteps, 1, FADE_STEPS_MIN, FADE_STEPS_MAX)]
                       ELSE c
                 s2 == displayConfig(loadNumberArrayConfInt(s1, s1.fadeSteps, num(s1)))
             IN  [s2 EXCEPT !.fadeStep = IF s2.fadeSteps = 0 THEN in.divz
                                         ELSE DIGIT_DISPLAY_COUNT \div s2.fadeSteps]
        [] m = MODE_DISPLAY_SCROLL_STEPS_DOWN ->
             LET s1 == IF p THEN [c EXCEPT !.scrollSteps =
                                    WrapDown(s.scrollSteps, 1, SCROLL_STEPS_MIN,
                                             SCROLL_STEPS_MAX)]
                       ELSE c
             IN  displayConfig(loadNumberArrayConfInt(s1, s1.scrollSteps, num(s1)))
        [] m = MODE_DISPLAY_SCROLL_STEPS_UP ->
             LET s1 == IF p THEN [c EXCEPT !.scrollSteps =
                                    WrapUp(s.scrollSteps, 1, SCROLL_STEPS_MIN,
                                           SCROLL_STEPS_MAX)]
                       ELSE c
             IN  displayConfig(loadNumberArrayConfInt(s1, s1.scrollSteps, num(s1)))
        [] m = MODE_BACKLIGHT_MODE ->
             LET s1 == IF p THEN [c EXCEPT !.backlightMode =
                                    WrapUp(Byte(s.backlightMode + 1), 0, BACKLIGHT_MIN,
                                           BACKLIGHT_MAX)]
                       ELSE c
             IN  displayConfig(loadNumberArrayConfInt(s1, s1.backlightMode, num(s1)))
        [] m \in {MODE_RED_CNL, MODE_GRN_CNL, MODE_BLU_CNL} ->
             LET s1 == IF s.backlightMode = BACKLIGHT_CYCLE THEN SkipMode(c) ELSE c
             IN  displayConfig(loadNumberArrayConfInt(s1, in.cfg, num(s1)))
        [] m = MODE_TARGET_HV_UP ->
             LET s1 == IF p THEN [c EXCEPT !.hvTargetVoltage =
                                    WrapUp(s.hvTargetVoltage, 5, HVGEN_TARGET_VOLTAGE_MIN,
                                           HVGEN_TARGET_VOLTAGE_MAX)]
                       ELSE c
                 s2 == loadNumberArrayConfInt(s1, s1.hvTargetVoltage, num(s1))
             IN  displayConfig([s2 EXCEPT !.rawHVADCThreshold =
                                            getRawHVADCThreshold(s2.hvTargetVoltage)])
        [] m = MODE_TARGET_HV_DOWN ->
             LET s1 == IF p THEN [c EXCEPT !.hvTargetVoltage =
                                    WrapDown(s.hvTargetVoltage, 5, HVGEN_TARGET_VOLTAGE_MIN,
                                             HVGEN_TARGET_VOLTAGE_MAX)]
                       ELSE c
                 s2 == loadNumberArrayConfInt(s1, s1.hvTargetVoltage, num(s1))
             IN  displayConfig([s2 EXCEPT !.rawHVADCThreshold =
                                            getRawHVADCThreshold(s2.hvTargetVoltage)])
        [] m = MODE_PULSE_UP ->
             LET s1 == IF p THEN setPWMOnTime(c, s.pwmOn + 10) ELSE c
             IN  displayConfig(loadNumberArrayConfInt(s1, s1.pwmOn, num(s1)))
        [] m = MODE_PULSE_DOWN ->
             LET s1 == IF p THEN setPWMOnTime(c, s.pwmOn - 10) ELSE c
             IN  displayConfig(loadNumberArrayConfInt(s1, s1.pwmOn, num(s1)))
        [] m = MODE_TEMP -> displayConfig(loadNumberArrayTemp(s, in.t, num(s)))
        [] m = MODE_VERSION ->
             displayConfig(loadNumberArrayConfInt(s, SOFTWARE_VERSION, num(s)))
        [] m = MODE_TUBE_TEST -> loadNumberArrayTestDigits(allNormal(s), in.t)
        [] m = MODE_DIGIT_BURN ->
             IF ~p THEN c
             ELSE IF Byte(s.digitBurnValue + 1) > 9
                  THEN LET d == Byte(s.digitBurnDigit + 1)
                       IN  [digitOff(c) EXCEPT !.digitBurnValue = 0,
                                               !.digitBurnDigit = IF d > 5 THEN 0 ELSE d]
                  ELSE [c EXCEPT !.digitBurnValue = Byte(s.digitBurnValue + 1)]
        [] OTHER -> s

\* The order of the "if (currentMode == ...)" statements
SettingsOrder ==
  <<MODE_MINS_SET, MODE_HOURS_SET, MODE_DAYS_SET, MODE_MONTHS_SET, MODE_YEARS_SET,
    MODE_12_24, MODE_LEAD_BLANK, MODE_SCROLLBACK, MODE_DATE_FORMAT, MODE_DAY_BLANKING,
    MODE_HR_BLNK_START, MODE_HR_BLNK_END, MODE_SUPPRESS_ACP, MODE_FADE_STEPS_UP,
    MODE_FADE_STEPS_DOWN, MODE_DISPLAY_SCROLL_STEPS_DOWN, MODE_DISPLAY_SCROLL_STEPS_UP,
    MODE_BACKLIGHT_MODE, MODE_RED_CNL, MODE_GRN_CNL, MODE_BLU_CNL, MODE_CYCLE_SPEED,
    MODE_TARGET_HV_UP, MODE_TARGET_HV_DOWN, MODE_PULSE_UP, MODE_PULSE_DOWN, MODE_TEMP,
    MODE_VERSION, MODE_TUBE_TEST, MODE_DIGIT_BURN>>

RECURSIVE SettingsChain(_, _, _)
SettingsChain(s, k, in) ==
  IF k > Len(SettingsOrder) THEN s
  ELSE SettingsChain(IF s.currentMode = SettingsOrder[k]
                     THEN SettingsCase(s, SettingsOrder[k], in) ELSE s,
                     k + 1, in)

DAY_BLANKING_NEVER == 0
DAY_BLANKING_ALWAYS == 3

\* checkBlanking(), called with secs = 0 and currentMode = MODE_TIME. The
\* modes that look at the day of week or the hour give in.nativeBlanked; a
\* dayBlanking outside the switch falls off the end of the function and the
\* value returned is indeterminate.
checkBlanking(s, in) ==
  IF s.dayBlanking = DAY_BLANKING_NEVER THEN FALSE
  ELSE IF s.dayBlanking = DAY_BLANKING_ALWAYS THEN TRUE
  ELSE in.nativeBlanked

\* "if (currentMode == MODE_TIME) { ... }" in the settings branch of loop()
TimeModeCase(s, in) ==
  LET endPassed(x) == x.blankSuppressedEndMillis # "future"
      startPassed(x) == x.blankSuppressedStartMillis # "future"
      \* if (displayDate.getSecs() == 0) { ... }
      a == IF in.t.secs # 0 THEN s
           ELSE [s EXCEPT !.blanked = checkBlanking(s, in) /\ endPassed(s),
                          !.blankSuppressedEndMillis =
                             IF endPassed(s) THEN "zero" ELSE @,
                          !.blankSuppressedStartMillis =
                             IF startPassed(s) THEN "zero" ELSE @,
                          !.blankSuppressStep = IF startPassed(s) THEN 0 ELSE @]
      \* if (button1.isButtonPressedAndReleased()) { ... }
      b == IF ~a.short THEN a
           ELSE IF a.blankSuppressedStartMillis = "future" \/ a.blanked
           THEN [Consume(a) EXCEPT
                   !.blankSuppressedStartMillis = "future",
                   !.blankSuppressStep =
                      IF Byte(a.blankSuppressStep + 1) > 3 THEN 3
                      ELSE Byte(a.blankSuppressStep + 1),
                   !.blankSuppressedEndMillis = "future",
                   !.blanked = FALSE]
           ELSE LET m == IF a.secsDisplayEnd = "future"
                         THEN a.tempDisplayMode + 1 ELSE TEMP_MODE_MIN
                IN  [Consume(a) EXCEPT
                       !.tempDisplayMode = IF m > TEMP_MODE_MAX THEN TEMP_MODE_MIN ELSE m,
                       !.secsDisplayEnd = "future"]
  IN  IF b.secsDisplayEnd = "future"
      THEN LET b0 == [b EXCEPT !.blanked = FALSE]
               b1 == IF b0.tempDisplayMode = TEMP_MODE_DATE
                     THEN loadNumberArrayDate(b0, in.t) ELSE b0
               b2 == IF b1.tempDisplayMode = TEMP_MODE_TEMP
                     THEN loadNumberArrayTemp(b1, in.t, MODE_TEMP) ELSE b1
               b3 == IF b2.tempDisplayMode = TEMP_MODE_LDR
                     THEN loadNumberArrayLDR(b2) ELSE b2
               b4 == IF b3.tempDisplayMode = TEMP_MODE_VERSION
                     THEN loadNumberArrayConfInt(b3, SOFTWARE_VERSION,
                                                 b3.currentMode - MODE_12_24)
                     ELSE b3
           IN  allFade(b4)
      ELSE IF b.acpOffset > 0
           THEN allBright(loadNumberArrayACP(b, in.t))
           ELSE applyBlanking(allFade(loadNumberArrayTime(b, in.t)))

\* "Process the modes" as it would be without "blanked = false" in the
\* preview.
ProcessModesKeepBlanked(s, in) ==
  IF s.nextMode # s.currentMode
  THEN PreviewChain(s, 1, in)
  ELSE IF s.currentMode = MODE_TIME THEN TimeModeCase(s, in)
  ELSE SettingsChain(s, 1, in)

\* "Process the modes"
ProcessModes(s, in) ==
  IF s.nextMode # s.currentMode
  THEN PreviewChain([s EXCEPT !.blanked = FALSE], 1, in)
  ELSE IF s.currentMode = MODE_TIME THEN TimeModeCase(s, in)
  ELSE SettingsChain(s, 1, in)

\* getDimmingFromLDR. The doubles are kept in units of 1/LDRUnit, each
\* operation rounded toward zero. sensorFactor is initialised once, from
\* the defaults: (double)(DIGIT_DISPLAY_OFF)/(double)(dimBright-dimDark) =
\* 999/600 = 1.665, and never assigned again.
LDRUnit == 1000

sensorFactor ==
  CDiv(DIGIT_DISPLAY_OFF * LDRUnit, SENSOR_HIGH_DEFAULT - SENSOR_LOW_DEFAULT)

\* sensorLDRSmoothed after the call with the ADC sample analog (0..1023)
LDRSmoothed(s, analog) ==
  LET rawSensorVal == 1023 - analog
      sensorDiff == rawSensorVal * LDRUnit - s.sensorLDRSmoothed
  IN  s.sensorLDRSmoothed + CDiv(sensorDiff, s.sensorSmoothCountLDR)

\* The scaled value before the conversion to int
LDRScaled(s, analog) ==
  LET r0 == LDRSmoothed(s, analog) - s.dimDark * LDRUnit
      r1 == IF r0 < s.dimDark * LDRUnit THEN s.dimDark * LDRUnit ELSE r0
      r2 == IF r1 > s.dimBright * LDRUnit THEN s.dimBright * LDRUnit ELSE r1
  IN  CDiv((r2 - s.dimDark * LDRUnit) * sensorFactor, LDRUnit)

\* The function without its last clamp.
getDimmingFromLDRNoMax(s, analog) ==
  LET returnValue == CDiv(LDRScaled(s, analog), LDRUnit)
  IN  IF returnValue < DIGIT_DISPLAY_MIN_DIM THEN DIGIT_DISPLAY_MIN_DIM ELSE returnValue

\* The value getDimmingFromLDR returns
getDimmingFromLDR(s, analog) ==
  LET returnValue == CDiv(LDRScaled(s, analog), LDRUnit)
  IN  IF returnValue < DIGIT_DISPLAY_MIN_DIM THEN DIGIT_DISPLAY_MIN_DIM
      ELSE IF returnValue > DIGIT_DISPLAY_OFF THEN DIGIT_DISPLAY_OFF
      ELSE returnValue

\* "digitOffCount = getDimmingFromLDR(); fadeStep = digitOffCount / fadeSteps;"
\* an integer division stored in a float
ReadLDR(s, in) ==
  [s EXCEPT !.digitOffCount = in.ldr,
            !.fadeStep = IF s.fadeSteps = 0 THEN in.divz ELSE CDiv(in.ldr, s.fadeSteps)]

\* "One armed bandit trigger every 10th minute" and its handling
AntiCathodePoisoning(s, in) ==
  LET a == IF s.acpOffset = 0 /\ in.t.mins % 10 = 9 /\ in.t.secs = 15
              /\ (in.suppressACP => s.digitOffCount > DIGIT_DISPLAY_MIN_DIM)
           THEN [s EXCEPT !.acpOffset = 1] ELSE s
  IN  IF a.acpOffset > 0
      THEN IF a.acpTick >= a.acpOffset
           THEN [a EXCEPT !.acpTick = 0,
                          !.acpOffset = IF a.acpOffset + 1 = 50 THEN 0 ELSE a.acpOffset + 1]
           ELSE [a EXCEPT !.acpTick = a.acpTick + 1]
      ELSE a

\* The display part of loop(): outputDisplay() or, in burn mode, digitOn()
Display(s, in) ==
  IF s.currentMode # MODE_DIGIT_BURN /\ s.nextMode # MODE_DIGIT_BURN
  THEN outputDisplay(AntiCathodePoisoning(s, in), in.garbage)
  ELSE digitOn(s, s.digitBurnDigit, s.digitBurnValue)

\* The anode lines other than the digit's own that are high in ports
OtherAnodes(ports, digit) ==
  LET own == AnodeOn([c |-> {}, d |-> {}], digit)
  IN  Cardinality(ports.c \ own.c) + Cardinality(ports.d \ own.d)

\* The anode lines when the timer loop of slot i starts, in a pass of
\* outputDisplay entered with the lines p0 that gave the slots the on and
\* off steps onT and offT
RECURSIVE PortsBeforeSlot(_, _, _, _)
PortsBeforeSlot(p0, onT, offT, i) ==
  IF i = 0 THEN p0
  ELSE TimerLoopPorts(onT[i - 1], offT[i - 1], PortsBeforeSlot(p0, onT, offT, i - 1), i - 1)

\* History of the digitOn calls of a pass: the greatest number of other
\* anode lines that were high when the timer loop of a slot called
\* digitOn (digitOff of the same slot comes first when its step is lower)
ForeignAnodesInPass(p0, onT, offT) ==
  LET atCall(i) ==
        LET b == PortsBeforeSlot(p0, onT, offT, i)
        IN  IF offT[i] >= 0 /\ offT[i] < onT[i] THEN AnodesOff(b) ELSE b
      n(i) == IF onT[i] >= 0 /\ onT[i] < DIGIT_ANTI_GHOST
              THEN OtherAnodes(atCall(i), i) ELSE 0
  IN  CHOOSE m \in {n(i) : i \in Slots} : \A i \in Slots : n(i) <= m

\* History of the digitOn calls of the display part of loop(): before is
\* the state the display part starts in, after the state it leaves
ForeignAnodes(before, after) ==
  IF before.currentMode # MODE_DIGIT_BURN /\ before.nextMode # MODE_DIGIT_BURN
  THEN ForeignAnodesInPass([c |-> before.PORTC, d |-> before.PORTD],
                           after.digitOnTime, after.digitOffTime)
  ELSE OtherAnodes([c |-> before.PORTC, d |-> before.PORTD], before.digitBurnDigit)

\* One iteration of loop(), as a function of the state and the inputs;
\* last.arg keeps the history of its digitOn calls
loopBody(s, in) ==
  LET s0 == Tick(s, in.elapsed) @@ [short |-> in.btn = "rel"]
      s1 == SetMode(ButtonPreview(s0, in), in)
      s2 == ReadLDR(ProcessModes(s1, in), in)
      s3 == Display(s2, in)
      s4 == [s3 EXCEPT !.loopCounter = Int16(s3.loopCounter + 1),
                       !.last = [op |-> "loop", arg |-> ForeignAnodes(s2, s3),
                                 n |-> in.clk,
                                 press |-> in.btn = "rel" /\ ~s3.short]]
  IN  checkHVVoltage(s4, in.reading)

Loop(in) ==
  /\ pc = "loop"
  /\ loopCounter < MaxLoops
  /\ Becomes(loopBody(Cur, in))

\* One iteration of loop() in which getDimmingFromLDR reads the ADC sample
\* analog: in.ldr is what it returns
LoopSample(in, analog) ==
  /\ pc = "loop"
  /\ loopCounter < MaxLoops
  /\ \E v \in {getDimmingFromLDR(Cur, analog)} :
       Becomes([loopBody(Cur, [in EXCEPT !.ldr = v]) EXCEPT
                  !.sensorLDRSmoothed = LDRSmoothed(Cur, analog)])

\* ---------------------------------------------------------------------
\* Bus interrupts. The handlers are registered in setup() when no RTC
\* answers (Wire.onReceive, Wire.onRequest) and may then run between any
\* two steps of the main context.
\* ---------------------------------------------------------------------
HandlersRegistered ==
  ~useRTC /\ pc \in {"eeprom", "profile", "hvgo", "calib", "finish", "loop"}

BusReceive(operation, b) ==
  /\ HandlersRegistered
  /\ Becomes([receiveEvent(Cur, operation, b) EXCEPT
               !.last = [op |-> "receive", arg |-> 0, n |-> 0, press |-> FALSE]])

BusRequest ==
  /\ HandlersRegistered
  /\ Becomes([Cur EXCEPT
               !.last = [op |-> "request", arg |-> requestEvent(Cur), n |-> 0,
                         press |-> FALSE]])

\* ---------------------------------------------------------------------
\* Inputs
\* ---------------------------------------------------------------------
\* The clock reading setup() leaves when no RTC answers:
\* setSyncTime(nowMillis,15,10,1,12,34,56); the temperature is 21.50.
SyncTime ==
  [hours |-> 12, mins |-> 34, secs |-> 56, days |-> 1, months |-> 10, years |-> 15,
   whole |-> 21, fract |-> 50]

\* Inputs of an iteration in which only the button and the HV reading vary
QuietInputs(btn, reading) ==
  [btn |-> btn, t |-> SyncTime, elapsed |-> {}, nativeBlanked |-> FALSE,
   hourMode |-> FALSE, suppressACP |-> FALSE, cfg |-> 0, ldr |-> DIGIT_DISPLAY_OFF,
   divz |-> 0, reading |-> reading, garbage |-> 0, clk |-> 0]

\* An EEPROM image: the PWM on time and top time, the calibration flag,
\* the fade steps, the scrollback flag and the scroll steps; all other
\* cells as factoryReset() writes them
EEConfig(pulse, top, needCalib, fade, sb, scroll) ==
  [cell \in EECells |->
     CASE cell = EE_FADE_STEPS -> fade
       [] cell = EE_DATE_FORMAT -> DATE_FORMAT_DEFAULT
       [] cell = EE_DAY_BLANKING -> DAY_BLANKING_DEFAULT
       [] cell = EE_BLANK_LEAD_ZERO -> 0
       [] cell = EE_SCROLLBACK -> sb
       [] cell = EE_SCROLL_STEPS -> scroll
       [] cell = EE_BACKLIGHT_MODE -> BACKLIGHT_DEFAULT
       [] cell = EE_HV_VOLTAGE -> HVGEN_TARGET_VOLTAGE_DEFAULT
       [] cell = EE_PULSE_LO -> pulse % 256
       [] cell = EE_PULSE_HI -> pulse \div 256
       [] cell = EE_PWM_TOP_LO -> top % 256
       [] cell = EE_PWM_TOP_HI -> top \div 256
       [] cell = EE_DIM_DARK_LO -> SENSOR_LOW_DEFAULT % 256
       [] cell = EE_DIM_DARK_HI -> SENSOR_LOW_DEFAULT \div 256
       [] cell = EE_DIM_BRIGHT_LO -> SENSOR_HIGH_DEFAULT % 256
       [] cell = EE_DIM_BRIGHT_HI -> SENSOR_HIGH_DEFAULT \div 256
       [] cell = EE_DIM_SMOOTH_SPEED -> SENSOR_SMOOTH_READINGS_DEFAULT
       [] OTHER -> needCalib]

\* The image with the display configuration of factoryReset()
EEImage(pulse, top, needCalib) ==
  EEConfig(pulse, top, needCalib, FADE_STEPS_DEFAULT, 1, SCROLL_STEPS_DEFAULT)

\* The smoothed reading follows the HV rail, which moves slowly against
\* the calibration loop: during calibration it is under or over the
\* threshold, and changes side only every ADCHold iterations.
CalibReadings ==
  IF calI % ADCHold = 0
  THEN {rawHVADCThreshold - 1, rawHVADCThreshold + 1}
  ELSE {sensorHVSmoothed}

\* ---------------------------------------------------------------------
\* Specification of the HV generator: power-on with stored PWM values in
\* and out of range, calibration, then the first iterations of the loop
\* with the regulator and the digit burn mode
\* ---------------------------------------------------------------------
\* Stored (on time, top time) words: the defaults, the two that conflict
\* (500 + 50 > 300), the narrowest pulse with the longest period, and
\* words out of range (65535 reads back as -1), which force a calibration.
StoredPWM == {<<200, 1000>>, <<500, 300>>, <<50, 10000>>, <<65535, 10001>>}

InitHV == \E w \in StoredPWM : PowerOn(EEImage(w[1], w[2], 0))

SetupHV ==
  \/ SetupTimerClear
  \/ SetupTimerMode
  \/ SetupTimerOn
  \/ SetupTimerOff
  \/ SetupFactoryReset(FALSE)
  \/ SetupTimeProvider(TRUE)
  \/ SetupReadEEPROM
  \/ SetupPWMProfile
  \/ SetupCalibCheck
  \/ SetupFinish

CalibStep ==
  \/ \E reading \in CalibReadings : CalibRegulateIter(reading, 0)
  \/ \E reading \in CalibReadings : CalibOnTimeUpIter(reading, 0)
  \/ \E reading \in CalibReadings : CalibOnTimeDownIter(reading, 0)
  \/ CalibNextPass

LoopHV ==
  /\ loopCounter < HVLoops
  /\ \E btn \in {"none", "rel8S"}, reading \in HVReadings(Cur) :
        Loop(QuietInputs(btn, reading))

NextHV == SetupHV \/ CalibStep \/ LoopHV

SpecHV == InitHV /\ [][NextHV]_vars

\* ---------------------------------------------------------------------
\* Specification of setPWMOnTime as a function: called twice with the
\* same argument, from states with every kind of period and argument
\* ---------------------------------------------------------------------
\* Periods in [PWM_TOP_MIN, PWM_TOP_MAX]: both ends, the periods around
\* PWM_PULSE_MAX + PWM_OFF_MIN, and the default
CallTops == {300, 301, 549, 550, 551, 1000, 10000}
\* Arguments: both ends of int, and the values around each clamp
CallArgs == {-32768, -1, 0, 49, 50, 51, 249, 250, 251, 499, 500, 501, 32767}

\* The state after setup() with the period top and the on time on, and a
\* call of setPWMOnTime(x) pending
CallState(top, on, x) ==
  [([EEPROM |-> EEImage(on, top, 0)] @@ Globals) EXCEPT
     !.pc = "call", !.pwmTop = top, !.ICR1 = top, !.pwmOn = on, !.OCR1A = on,
     !.tccrOff = WGM11_BIT, !.tccrOn = WGM11_BIT + COM1A1_BIT, !.TCCR1A = WGM11_BIT,
     !.rawHVADCThreshold = getRawHVADCThreshold(HVGEN_TARGET_VOLTAGE_DEFAULT),
     !.last = [op |-> "setPWMOnTime", arg |-> x, n |-> 0, press |-> FALSE]]

InitSetOn ==
  \E top \in CallTops, x \in CallArgs :
     \E on \in {PWM_PULSE_MIN, IF top - PWM_OFF_MIN < PWM_PULSE_MAX
                               THEN top - PWM_OFF_MIN ELSE PWM_PULSE_MAX} :
        Holds(CallState(top, on, x))

\* setPWMOnTime(x), the first and the second time
CallSetPWMOnTime ==
  /\ pc = "call" /\ last.op = "setPWMOnTime" /\ last.n < 2
  /\ Becomes([setPWMOnTime(Cur, last.arg) EXCEPT !.last.n = last.n + 1])

NextSetOn == CallSetPWMOnTime

SpecSetOn == InitSetOn /\ [][NextSetOn]_vars

\* ---------------------------------------------------------------------
\* Specification of the regulator under a steady input: power-on without
\* calibration, then the loop with the smoothed reading equal to the
\* threshold in every iteration
\* ---------------------------------------------------------------------
SteadyPWM == {<<200, 1000>>, <<500, 300>>, <<50, 10000>>, <<250, 320>>}

InitSteady == \E w \in SteadyPWM : PowerOn(EEImage(w[1], w[2], 0))

LoopSteady == Loop(QuietInputs("none", rawHVADCThreshold))

NextSteady == SetupHV \/ LoopSteady

SpecSteady == InitSteady /\ [][NextSteady]_vars

\* ---------------------------------------------------------------------
\* Specification of the settings menu: power-on without calibration, the
\* button held and released through the modes, short presses in the two
\* PWM pulse modes, with the HV rail over its target and scrollback off
\* ---------------------------------------------------------------------
InitMenu ==
  PowerOn(EEConfig(PWM_PULSE_DEFAULT, PWM_TOP_DEFAULT, 0, FADE_STEPS_DEFAULT, 0,
                   SCROLL_STEPS_DEFAULT))

MenuButtons ==
  IF currentMode \in {MODE_PULSE_UP, MODE_PULSE_DOWN} /\ nextMode = currentMode
  THEN {"none", "rel", "held1S"}
  ELSE IF nextMode # currentMode THEN {"rel1S"}
  ELSE {"held1S", "rel1S"}

LoopMenu ==
  /\ loopCounter < MenuLoops
  /\ \E btn \in MenuButtons : Loop(QuietInputs(btn, rawHVADCThreshold + 1))

NextMenu == SetupHV \/ LoopMenu

SpecMenu == InitMenu /\ [][NextMenu]_vars

\* ---------------------------------------------------------------------
\* The clock as the specifications of the renderer see it
\* ---------------------------------------------------------------------
\* The reading of the clock changes at most every period iterations, from
\* one reading of a sequence to the next; last.n is the position of the
\* reading the previous iteration used.
ClockAt(h, m, sec) ==
  [hours |-> h, mins |-> m, secs |-> sec, days |-> 1, months |-> 10, years |-> 15,
   whole |-> 21, fract |-> 50]

ClockPositions(clock, period) ==
  LET j == IF last.op = "loop" THEN last.n ELSE 1
  IN  IF j < Len(clock) /\ loopCounter > 0 /\ loopCounter % period = 0
      THEN {j, j + 1} ELSE {j}

\* The version number is on display during the first VersionLoops
\* iterations (secsDisplayEnd = millis() + 1500 in setup()); then the
\* deadline has passed.
VersionOver == IF loopCounter >= VersionLoops THEN {"secs"} ELSE {}

\* Inputs of an iteration of the renderer specifications: no button, the
\* HV rail at its threshold, full ambient light, and the clock
RenderInputs(btn, clock, j) ==
  [QuietInputs(btn, rawHVADCThreshold) EXCEPT
     !.t = clock[j], !.clk = j, !.elapsed = VersionOver]

\* ---------------------------------------------------------------------
\* Specification of the fade: power-on without calibration with
\* fadeSteps 20, 50 and 200, scrollback on and off; the time display with
\* the seconds going 53 -> 57 and then the time 12:35:00
\* ---------------------------------------------------------------------
FadeConfigs == {<<20, 1>>, <<50, 1>>, <<200, 1>>, <<20, 0>>}

FadeClock == <<ClockAt(12, 34, 53), ClockAt(12, 34, 57), ClockAt(12, 35, 0)>>

InitFade ==
  \E c \in FadeConfigs :
    PowerOn(EEConfig(PWM_PULSE_MAX \div 2, PWM_TOP_MIN, 0, c[1], c[2],
                     SCROLL_STEPS_DEFAULT))

LoopFade ==
  /\ loopCounter < FadeLoops
  /\ \E j \in ClockPositions(FadeClock, SecondLoops) : Loop(RenderInputs("none", FadeClock, j))

NextFade == SetupHV \/ LoopFade

SpecFade == InitFade /\ [][NextFade]_vars

\* ---------------------------------------------------------------------
\* Specification of the scrollback: power-on without calibration with
\* scrollSteps 1, 4 and 40; the time display going from 23:59:59 to
\* 00:00:00 and on to 00:00:01
\* ---------------------------------------------------------------------
ScrollConfigs == {1, 4, 40}

ScrollClock == <<ClockAt(23, 59, 59), ClockAt(0, 0, 0), ClockAt(0, 0, 1)>>

InitScroll ==
  \E m \in ScrollConfigs :
    PowerOn(EEConfig(PWM_PULSE_MAX \div 2, PWM_TOP_MIN, 0, FADE_STEPS_MIN, 1, m))

LoopScroll ==
  /\ loopCounter < ScrollLoops
  /\ \E j \in ClockPositions(ScrollClock, SecondLoops) : Loop(RenderInputs("none", ScrollClock, j))

NextScroll == SetupHV \/ LoopScroll

SpecScroll == InitScroll /\ [][NextScroll]_vars

\* ---------------------------------------------------------------------
\* Specification of the display modes: power-on without calibration with
\* scrollback on and off, leading zero blanking on and the display blanked
\* at every full minute; the button held and released through all the
\* modes and back to the time display, while the time goes from 09:59:59
\* to 10:00:00
\* ---------------------------------------------------------------------
ModeClock == <<ClockAt(9, 59, 59), ClockAt(10, 0, 0)>>

InitModes ==
  \E sb \in {0, 1} :
    PowerOn([EEConfig(PWM_PULSE_MAX \div 2, PWM_TOP_MIN, 0, FADE_STEPS_MIN, sb,
                      SCROLL_STEPS_DEFAULT)
               EXCEPT ![EE_DAY_BLANKING] = DAY_BLANKING_ALWAYS,
                      ![EE_BLANK_LEAD_ZERO] = 1])

ModeButton == IF nextMode = currentMode THEN "held1S" ELSE "rel1S"

LoopModes ==
  /\ loopCounter < ModeLoops
  /\ \E j \in ClockPositions(ModeClock, ModeSecondLoops) :
       Loop(RenderInputs(ModeButton, ModeClock, j))

NextModes == SetupHV \/ LoopModes

SpecModes == InitModes /\ [][NextModes]_vars

\* ---------------------------------------------------------------------
\* Specification of the step settings: power-on without calibration, the
\* version display fading in for VersionLoops iterations, then the button
\* held and released through the modes, with short presses in the four
\* modes that change fadeSteps and scrollSteps
\* ---------------------------------------------------------------------
StepModes ==
  {MODE_FADE_STEPS_UP, MODE_FADE_STEPS_DOWN,
   MODE_DISPLAY_SCROLL_STEPS_UP, MODE_DISPLAY_SCROLL_STEPS_DOWN}

InitSteps ==
  PowerOn(EEConfig(PWM_PULSE_MAX \div 2, PWM_TOP_MIN, 0, FADE_STEPS_DEFAULT, 0,
                   SCROLL_STEPS_DEFAULT))

StepButtons ==
  IF loopCounter < VersionLoops THEN {"none"}
  ELSE IF nextMode = currentMode /\ currentMode \in StepModes THEN {"rel", "held1S"}
  ELSE {ModeButton}

LoopSteps ==
  /\ loopCounter < StepLoops
  /\ \E btn \in StepButtons : Loop(QuietInputs(btn, rawHVADCThreshold))

NextSteps == SetupHV \/ LoopSteps

SpecSteps == InitSteps /\ [][NextSteps]_vars

\* ---------------------------------------------------------------------
\* Specification of the ambient light: power-on without calibration with
\* fadeSteps 20 and 200, the version display, the ambient dimming at its
\* darkest and brightest value, and outputDisplay's uninitialised locals
\* holding a negative value, zero or a value past the timer range
\* ---------------------------------------------------------------------
DimConfigs == {FADE_STEPS_MIN, FADE_STEPS_MAX}

AmbientLight == {DIGIT_DISPLAY_MIN_DIM, DIGIT_DISPLAY_OFF}

LocalGarbage == {DIGIT_DISPLAY_NEVER, DIGIT_DISPLAY_ON, 2 * DIGIT_DISPLAY_COUNT}

InitDim ==
  \E f \in DimConfigs :
    PowerOn(EEConfig(PWM_PULSE_MAX \div 2, PWM_TOP_MIN, 0, f, 1, SCROLL_STEPS_DEFAULT))

LoopDim ==
  /\ loopCounter < DimLoops
  /\ \E ldr \in AmbientLight, g \in LocalGarbage :
       Loop([QuietInputs("none", rawHVADCThreshold) EXCEPT !.ldr = ldr, !.garbage = g])

NextDim == SetupHV \/ LoopDim

SpecDim == InitDim /\ [][NextDim]_vars

\* ---------------------------------------------------------------------
\* Specification of the calibration: power-on with the calibration flag
\* set, or with stored PWM words out of range, which sets it; the four
\* passes of calibrateHVG with the supply under or over the threshold,
\* to the end of setup(). calibrateHVG is sequential code without
\* interrupts that stop it, so a step of it that can be taken is taken:
\* weak fairness of the calibration step.
\* ---------------------------------------------------------------------
StoredCalib == {<<65535, 10001, 0>>, <<PWM_PULSE_MAX, PWM_TOP_MIN, 1>>}

InitCalib == \E w \in StoredCalib : PowerOn(EEImage(w[1], w[2], w[3]))

NextCalib == SetupHV \/ CalibStep

SpecCalib == InitCalib /\ [][NextCalib]_vars /\ WF_vars(CalibStep)

\* ---------------------------------------------------------------------
\* Specification of the starts: power-on with a blank EEPROM (first start),
\* with stored PWM words in and out of range, with and without the button
\* held for a factory reset; setup() with the calibration when it runs;
\* then the power is cycled and setup() runs again on the EEPROM as it was
\* left, without the button.
\* ---------------------------------------------------------------------
EEBlank == [cell \in EECells |-> 255]

StoredBoot == {EEBlank, EEImage(PWM_PULSE_DEFAULT, PWM_TOP_DEFAULT, 0),
               EEImage(PWM_PULSE_MAX + 1, PWM_TOP_DEFAULT, 0)}

InitBoot == \E e \in StoredBoot : PowerOn(e)

\* Power off and on once loop() has been entered: the globals restart from
\* their initialisers, the EEPROM keeps its contents.
Reboot ==
  /\ pc = "loop" /\ last.op # "boot"
  /\ Becomes([([EEPROM |-> EEPROM] @@ Globals) EXCEPT
               !.last = [op |-> "boot", arg |-> 0, n |-> 1, press |-> FALSE]])

SetupBoot ==
  \/ SetupTimerClear
  \/ SetupTimerMode
  \/ SetupTimerOn
  \/ SetupTimerOff
  \/ \E pressed \in (IF last.op = "boot" THEN {FALSE} ELSE BOOLEAN) :
        SetupFactoryReset(pressed)
  \/ \E rtcFound \in BOOLEAN : SetupTimeProvider(rtcFound)
  \/ SetupReadEEPROM
  \/ SetupPWMProfile
  \/ SetupCalibCheck
  \/ SetupFinish

NextBoot == SetupBoot \/ CalibStep \/ Reboot

SpecBoot == InitBoot /\ [][NextBoot]_vars

\* ---------------------------------------------------------------------
\* Specification of the bus slave: power-on with the stored configuration
\* of factoryReset(), with or without an RTC; when none answers, messages
\* of the master arrive at any point after the handlers are registered,
\* through the rest of setup() and the first iterations of the loop: a
\* time update, the scrollback flag, the date format, the fade steps and
\* the scroll steps. The bytes are a missing byte (-1), 0, 1 and 200; an
\* integer division by zero gives 0 or all ones.
\* ---------------------------------------------------------------------
BusLoops == 2

BusOperations ==
  {I2C_TIME_UPDATE, I2C_SET_OPTION_SCROLLBACK, I2C_SET_OPTION_DATE_FORMAT,
   I2C_SET_OPTION_FADE_STEPS, I2C_SET_OPTION_SCROLL_STEPS}

BusBytes == {-1, 0, 1, FADE_STEPS_MAX}

DivisionByZero == {0, -1}

InitBus == PowerOn(EEImage(PWM_PULSE_DEFAULT, PWM_TOP_DEFAULT, 0))

SetupBus ==
  \/ SetupTimerClear
  \/ SetupTimerMode
  \/ SetupTimerOn
  \/ SetupTimerOff
  \/ SetupFactoryReset(FALSE)
  \/ \E rtcFound \in BOOLEAN : SetupTimeProvider(rtcFound)
  \/ SetupReadEEPROM
  \/ SetupPWMProfile
  \/ SetupCalibCheck
  \/ SetupFinish

LoopBus ==
  /\ loopCounter < BusLoops
  /\ \E z \in DivisionByZero :
       Loop([QuietInputs("none", rawHVADCThreshold) EXCEPT !.divz = z])

BusStep ==
  \/ \E operation \in BusOperations, b \in BusBytes : BusReceive(operation, b)
  \/ BusRequest

NextBus == SetupBus \/ LoopBus \/ BusStep

SpecBus == InitBus /\ [][NextBus]_vars

\* ---------------------------------------------------------------------
\* Specification of the ambient dimming: power-on with stored dimDark,
\* dimBright and smoothing count at the ends of their ranges and at the
\* defaults (dimBright below dimDark included), then iterations of the
\* loop with the light sensor at the ends and in the middle of the ADC
\* range, and outputDisplay's uninitialised locals negative or zero.
\* ---------------------------------------------------------------------
LDRLoops == 3

StoredDark == {SENSOR_LOW_MIN, SENSOR_LOW_DEFAULT, SENSOR_LOW_MAX}
StoredBright == {SENSOR_HIGH_MIN, SENSOR_HIGH_DEFAULT, SENSOR_HIGH_MAX}
StoredSmooth == {SENSOR_SMOOTH_READINGS_MIN, 2, SENSOR_SMOOTH_READINGS_MAX}

LDRSamples == {0, 400, 1023}

EEDim(dark, bright, smooth) ==
  [EEImage(PWM_PULSE_DEFAULT, PWM_TOP_DEFAULT, 0) EXCEPT
     ![EE_DIM_DARK_LO] = dark % 256, ![EE_DIM_DARK_HI] = dark \div 256,
     ![EE_DIM_BRIGHT_LO] = bright % 256, ![EE_DIM_BRIGHT_HI] = bright \div 256,
     ![EE_DIM_SMOOTH_SPEED] = smooth]

InitLDR ==
  \E dark \in StoredDark, bright \in StoredBright, smooth \in StoredSmooth :
    PowerOn(EEDim(dark, bright, smooth))

LoopLDR ==
  /\ loopCounter < LDRLoops
  /\ \E analog \in LDRSamples, g \in {DIGIT_DISPLAY_NEVER, DIGIT_DISPLAY_ON} :
       LoopSample([QuietInputs("none", rawHVADCThreshold) EXCEPT !.garbage = g], analog)

NextLDR == SetupHV \/ LoopLDR

SpecLDR == InitLDR /\ [][NextLDR]_vars

\* ---------------------------------------------------------------------
\* Specification of the anode drive: the walk through the display modes
\* of SpecModes, with the ambient dimming at its darkest and brightest
\* value in every iteration
\* ---------------------------------------------------------------------
LoopGhost ==
  /\ loopCounter < ModeLoops
  /\ \E j \in ClockPositions(ModeClock, ModeSecondLoops), ldr \in AmbientLight :
       Loop([RenderInputs(ModeButton, ModeClock, j) EXCEPT !.ldr = ldr])

NextGhost == SetupHV \/ LoopGhost

SpecGhost == InitModes /\ [][NextGhost]_vars

\* ---------------------------------------------------------------------
\* Specification of the digit burn mode: power-on without calibration; an
\* 8 second press enters the mode from the time display; in the mode,
\* short presses step the value and the digit, and an 8 second press, a
\* 2 second press or a 1 second press leaves it
\* ---------------------------------------------------------------------
BurnLoops == 15

InitBurn == PowerOn(EEImage(PWM_PULSE_DEFAULT, PWM_TOP_DEFAULT, 0))

BurnButtons ==
  IF currentMode # MODE_DIGIT_BURN THEN {"none", "rel8S"}
  ELSE IF nextMode # currentMode THEN {"rel1S", "rel2S"}
  ELSE {"rel", "rel8S", "held1S"}

LoopBurn ==
  /\ loopCounter < BurnLoops
  /\ \E btn \in BurnButtons : Loop(QuietInputs(btn, rawHVADCThreshold))

NextBurn == SetupHV \/ LoopBurn

SpecBurn == InitBurn /\ [][NextBurn]_vars

\* ---------------------------------------------------------------------
\* Specification of the button: after setup(), checkButton() is called
\* with the pin pressed or released and nowMillis 1, 1000 or 6000 ms
\* later than at the call before, and the four release queries are called
\* at any point between two calls
\* ---------------------------------------------------------------------
ButtonSamples == 10

MillisSteps == {1, 1000, 6000}

ButtonOps ==
  {"checkButton", "isButtonPressedAndReleased", "isButtonPressedReleased1S",
   "isButtonPressedReleased2S", "isButtonPressedReleased8S"}

\* History of the button: last.n is the number of calls of checkButton
\* and last.arg the hold time the last pressed sample measured, 0 before
\* and at the debounce point
ButtonHist == IF last.op \in ButtonOps THEN last ELSE NoOp

\* "nowMillis = millis(); ... button1.checkButton(nowMillis);"
CheckButton(pin, elapsed) ==
  /\ pc = "loop" /\ ButtonHist.n < ButtonSamples
  /\ \E now \in {nowMillis + elapsed} :
       Becomes([Cur EXCEPT
         !.nowMillis = now,
         !.button1 = checkButtonInternal(button1, pin, now),
         !.last = [op |-> "checkButton",
                   arg |-> IF pin # 0 THEN ButtonHist.arg
                           ELSE IF button1.button1PressedCount < debounceCounter THEN 0
                           ELSE now - button1.button1PressStartMillis,
                   n |-> ButtonHist.n + 1, press |-> pin = 0]])

\* A release query; last.press is what it returned
ButtonQuery(name, q) ==
  /\ pc = "loop" /\ last.op = "checkButton"
  /\ Becomes([Cur EXCEPT !.button1 = q.b,
                         !.last = [ButtonHist EXCEPT !.op = name, !.press = q.r]])

QueryRelease ==
  \/ ButtonQuery("isButtonPressedAndReleased", isButtonPressedAndReleased(button1))
  \/ ButtonQuery("isButtonPressedReleased1S", isButtonPressedReleased1S(button1))
  \/ ButtonQuery("isButtonPressedReleased2S", isButtonPressedReleased2S(button1))
  \/ ButtonQuery("isButtonPressedReleased8S", isButtonPressedReleased8S(button1))

InitButton == PowerOn(EEImage(PWM_PULSE_DEFAULT, PWM_TOP_DEFAULT, 0))

NextButton ==
  \/ SetupHV
  \/ \E pin \in {0, 1}, elapsed \in MillisSteps : CheckButton(pin, elapsed)
  \/ QueryRelease

SpecButton == InitButton /\ [][NextButton]_vars

\* ---------------------------------------------------------------------
\* Specification of the ways out of the menu: power-on without
\* calibration; 1 second presses walk once through the modes and past
\* MODE_MAX, short presses change the leading zero blanking and the
\* backlight mode, and from every menu mode the button may be held for 2
\* seconds and released or released after 8 seconds; the digit burn mode
\* is left by an 8 second or a 2 second press; the walk ends back at the
\* time display
\* ---------------------------------------------------------------------
LeaveLoops == 64

LeaveButtons ==
  IF currentMode = MODE_DIGIT_BURN THEN {"rel8S", "rel2S"}
  ELSE IF nextMode # currentMode
  THEN IF nextMode = MODE_MIN /\ currentMode # MODE_MAX THEN {"rel2S"} ELSE {"rel1S"}
  ELSE IF currentMode = MODE_TIME THEN IF loopCounter = 0 THEN {"held1S"} ELSE {}
  ELSE IF currentMode \in {MODE_LEAD_BLANK, MODE_BACKLIGHT_MODE}
  THEN {"held1S", "held2S", "rel8S", "rel"}
  ELSE {"held1S", "held2S", "rel8S"}

LoopLeave ==
  /\ loopCounter < LeaveLoops
  /\ \E btn \in LeaveButtons : Loop(QuietInputs(btn, rawHVADCThreshold))

NextLeave == SetupHV \/ LoopLeave

SpecLeave == InitMenu /\ [][NextLeave]_vars

\* ---------------------------------------------------------------------
\* The clock: loop() with the time provider, with and without an RTC. The
\* button walks the menu once, sets the hours (without an RTC) and the hour
\* mode on the way and leaves after the hour mode; then time passes.
\* ---------------------------------------------------------------------
\* The specification of the clock follows loop() for ClockLoops iterations.
ClockLoops == 20

\* The time between two iterations that are followed, in milliseconds;
\* ClockLeap stands for the iterations of nearly a minute in which only
\* the internal provider is read (the next setDelta overwrites what they
\* compute), so it is taken only where it does not pass the resync.
ClockMillis == {995}
ClockLeap == 59000
\* The hours are set forward up to ClockHoursSet.
ClockHoursSet == 13

ClockButtons ==
  IF nextMode # currentMode
  THEN IF nextMode = MODE_MIN /\ currentMode # MODE_MAX THEN {"rel2S"} ELSE {"rel1S"}
  ELSE IF currentMode = MODE_TIME THEN IF loopCounter = 0 THEN {"held1S", "none"} ELSE {"none"}
  ELSE IF currentMode = MODE_HOURS_SET
  THEN IF useRTC \/ displayDate.hours >= ClockHoursSet THEN {"held1S"} ELSE {"rel", "held1S"}
  ELSE IF currentMode = MODE_12_24 THEN {"rel", "held2S"}
  ELSE {"held1S"}

ClockElapsed ==
  IF currentMode = MODE_TIME /\ nextMode = currentMode
  THEN ClockMillis \cup
       (IF getDelta(displayDate, nowMillis + ClockLeap) <= READ_TIME_PROVIDER_MILLIS
        THEN {ClockLeap} ELSE {})
  ELSE {10}

\* The clock as loop() reads it from displayDate
ReadClock(d) ==
  [hours |-> getHours(d), mins |-> d.deltaMins, secs |-> d.deltaSecs, days |-> d.days,
   months |-> d.months, years |-> d.years, whole |-> 21, fract |-> 50]

\* The start of loop(): nowMillis = millis(), then the resync with the time
\* provider when the sync point is older than READ_TIME_PROVIDER_MILLIS,
\* else the time from the internal provider.
loopTime(s, now, rtc) ==
  LET d == s.displayDate
  IN  [s EXCEPT !.nowMillis = now,
                !.displayDate =
                  IF getDelta(d, now) > READ_TIME_PROVIDER_MILLIS
                  THEN IF s.useRTC THEN getRTCTime(d, now, rtc)
                       ELSE updateInternalTimeDelta(d, now)
                  ELSE getTimeInt(d, now)]

\* One iteration of loop() with its clock
LoopClock(elapsed, ack, btn) ==
  /\ pc = "loop"
  /\ loopCounter < ClockLoops
  /\ LET now == nowMillis + elapsed
         s1 == loopTime(Cur, now, [RTCAt(now) EXCEPT !.ack = ack])
         toggled == btn = "rel" /\ currentMode = MODE_12_24 /\ nextMode = currentMode
         in == [QuietInputs(btn, rawHVADCThreshold) EXCEPT
                  !.t = ReadClock(s1.displayDate),
                  !.hourMode = (s1.displayDate.hourMode # toggled),
                  !.elapsed = IF now > 1500 THEN {"secs"} ELSE {}]
     IN  Becomes(loopBody(s1, in))

LoopClocks == \E elapsed \in ClockElapsed, ack \in BOOLEAN, btn \in ClockButtons :
                LoopClock(elapsed, ack, btn)

NextClock == SetupBus \/ LoopClocks

SpecClock == InitMenu /\ [][NextClock]_vars

\* ---------------------------------------------------------------------
\* Specification of DateTime::setDelta as a function: called once, from
\* sync points of every kind and after every kind of elapsed time
\* ---------------------------------------------------------------------
\* Sync times: both ends of each field and the hours around noon
DeltaSyncHours == {0, 11, 12, 23}
DeltaSyncMins == {0, 30, 59}
DeltaSyncSecs == {0, 59}
\* The millisecond stamps of the sync point
DeltaSyncMillis == {0, 123456}
\* Elapsed milliseconds: none, around one second, minute, hour and day,
\* a day, an hour, a minute and a second, and the longest time for which
\* the stamp of the call is still a positive long
DeltaElapsed ==
  {0, 999, 1000, 59999, 60000, 3599999, 3600000, 86399999, 86400000, 90061000, 2147360191}

\* The state after setSyncTime(stamp, 20, 2, 29, h, m, sec), with the call
\* setDelta(stamp + e) pending
DeltaState(stamp, h, m, sec, e) ==
  [([EEPROM |-> EEImage(PWM_PULSE_DEFAULT, PWM_TOP_DEFAULT, 0)] @@ Globals) EXCEPT
     !.pc = "call",
     !.displayDate = setSyncTime(DateTimeNew, stamp, 20, 2, 29, h, m, sec),
     !.nowMillis = stamp + e,
     !.last = [op |-> "setDelta", arg |-> stamp + e, n |-> 0, press |-> FALSE]]

InitDelta ==
  \E stamp \in DeltaSyncMillis, h \in DeltaSyncHours, m \in DeltaSyncMins,
     sec \in DeltaSyncSecs, e \in DeltaElapsed :
     Holds(DeltaState(stamp, h, m, sec, e))

\* setDelta(newMillis)
CallSetDelta ==
  /\ pc = "call" /\ last.op = "setDelta" /\ last.n < 1
  /\ Becomes([Cur EXCEPT !.displayDate = setDelta(displayDate, last.arg),
                         !.last.n = last.n + 1])

NextDelta == CallSetDelta

SpecDelta == InitDelta /\ [][NextDelta]_vars

\* ---------------------------------------------------------------------
\* The mode machine: one walk through the menu by 1 second presses, left
\* from every mode by a 2 second or an 8 second press, with every stored
\* day blanking and backlight mode
\* ---------------------------------------------------------------------
\* The specification of the mode machine follows loop() for WalkLoops
\* iterations.
WalkLoops == 64

WalkDayBlanking == DAY_BLANKING_MIN..DAY_BLANKING_MAX
WalkBacklight == BACKLIGHT_MIN..BACKLIGHT_MAX

InitWalk ==
  \E db \in WalkDayBlanking, bl \in WalkBacklight :
    PowerOn([EEConfig(PWM_PULSE_DEFAULT, PWM_TOP_DEFAULT, 0, FADE_STEPS_DEFAULT, 0,
                      SCROLL_STEPS_DEFAULT)
               EXCEPT ![EE_DAY_BLANKING] = db, ![EE_BACKLIGHT_MODE] = bl])

\* A press that has passed 1 second is released or passes 2 seconds; one
\* that has passed 2 seconds is released or passes 8 seconds.
WalkButtons ==
  IF nextMode # currentMode
  THEN IF currentMode \in {MODE_MAX, MODE_DIGIT_BURN} THEN {"rel1S", "rel2S", "rel8S"}
       ELSE IF nextMode = MODE_MIN THEN {"rel2S", "rel8S"}
       ELSE {"rel1S", "held2S"}
  ELSE IF currentMode = MODE_TIME
  THEN IF loopCounter = 0 THEN {"held1S", "rel8S"} ELSE {}
  ELSE {"held1S", "held2S", "rel8S"}

LoopWalk ==
  /\ loopCounter < WalkLoops
  /\ \E btn \in WalkButtons : Loop(QuietInputs(btn, rawHVADCThreshold))

NextWalk == SetupHV \/ LoopWalk

SpecWalk == InitWalk /\ [][NextWalk]_vars

\* ---------------------------------------------------------------------
\* The blanked display: power-on with the display blanked at every full
\* minute, the time going from 09:59:59 to 10:00:00; from the time
\* display short presses and presses of 1, 2 and 8 seconds, into the
\* first menu modes and the digit burn mode and back
\* ---------------------------------------------------------------------
\* The specification of the blanked display follows loop() for BlankLoops
\* iterations.
BlankLoops == 10

\* A press that has passed 1 second is released or passes 2 seconds; one
\* that has passed 2 seconds is released then or after 8 seconds. In the
\* time display a press that has passed 2 seconds previews MODE_MIN, the
\* mode the clock is in.
BlankButtons ==
  IF loopCounter < VersionLoops THEN {"none"}
  ELSE IF currentMode = MODE_DIGIT_BURN
  THEN IF nextMode # currentMode THEN {"rel1S", "rel2S", "rel8S"}
       ELSE {"none", "held1S", "rel8S"}
  ELSE IF nextMode # currentMode
  THEN IF nextMode = MODE_MIN THEN {"rel2S", "rel8S"} ELSE {"rel1S", "held2S"}
  ELSE IF currentMode = MODE_TIME THEN {"none", "rel", "held1S", "held2S", "rel8S"}
  ELSE {"held1S", "held2S"}

LoopBlank ==
  /\ loopCounter < BlankLoops
  /\ \E j \in ClockPositions(ModeClock, ModeSecondLoops), btn \in BlankButtons :
       Loop(RenderInputs(btn, ModeClock, j))

NextBlank == SetupHV \/ LoopBlank

SpecBlank == InitModes /\ [][NextBlank]_vars

\* ---------------------------------------------------------------------
\* Properties of the HV generator
\* ---------------------------------------------------------------------
Min(a, b) == IF a < b THEN a ELSE b
Max(a, b) == IF a > b THEN a ELSE b
Abs(a) == IF a < 0 THEN -a ELSE a
Clamp(x, lo, hi) == Max(lo, Min(x, hi))

\* The HV driver output is enabled: TCCR1A holds tccrOn, with the compare
\* output COM1A1 connected to the pin
HVOutputOn == TCCR1A = tccrOn /\ (TCCR1A \div COM1A1_BIT) % 2 = 1

\* The pulse is at least PWM_OFF_MIN ticks shorter than the period, in the
\* variables and in the registers
SafetyMargin == pwmOn + PWM_OFF_MIN <= pwmTop /\ OCR1A + PWM_OFF_MIN <= ICR1

\* setup() has applied the PWM profile
ProfileApplied == pc \in {"hvgo", "calib", "finish", "loop"}

\* C1: in every reachable state in which the HV driver output is enabled,
\* pwmOn + 50 <= pwmTop and OCR1A + 50 <= ICR1, from power-on on.
C1_SafetyMargin == HVOutputOn => SafetyMargin

\* The state of C1 in which it fails: setup() has enabled the output to
\* compute tccrOn and has not yet written the period and the pulse width
C1_Transient == pc = "timerOff" /\ HVOutputOn /\ OCR1A = 0 /\ ICR1 = 0

\* What holds of the margin: it is there once setup() has applied the
\* PWM profile, whether the output is enabled or not.
MarginAfterProfile == ProfileApplied => SafetyMargin

\* C2: once setup() has applied the PWM profile, every state has
\* 300 <= pwmTop <= 10000 and 50 <= pwmOn <= 500.
C2_PWMRanges ==
  ProfileApplied =>
    /\ PWM_TOP_MIN <= pwmTop /\ pwmTop <= PWM_TOP_MAX
    /\ PWM_PULSE_MIN <= pwmOn /\ pwmOn <= PWM_PULSE_MAX

\* The regulator has asked for one tick more than PWM_TOP_MAX
C2_Witness ==
  /\ pc = "loop" /\ last.op = "loop"
  /\ sensorHVSmoothed > rawHVADCThreshold /\ pwmTop = PWM_TOP_MAX

\* A step that runs checkHVVoltage: an iteration of loop(), or of pass 1
\* or 4 of calibrateHVG
CheckHVStep ==
  \/ pc = "loop" /\ loopCounter' = loopCounter + 1
  \/ pc = "calib" /\ calPass \in {1, 4} /\ calI' = calI + 1

\* C3: one regulator step gives pwmTop' = max(min(pwmTop + 1, 10000),
\* pwmOn + 50) when the reading is over the threshold and pwmTop' =
\* max(max(pwmTop - 1, 300), pwmOn + 50) otherwise, and moves pwmTop by
\* at most one tick. (The reading, the threshold and the on time are
\* those in force when checkHVVoltage runs, at the end of the step.)
C3_RegulatorStep ==
  [][CheckHVStep =>
       /\ pwmTop' = IF sensorHVSmoothed' > rawHVADCThreshold'
                    THEN Max(Min(pwmTop + 1, PWM_TOP_MAX), pwmOn' + PWM_OFF_MIN)
                    ELSE Max(Max(pwmTop - 1, PWM_TOP_MIN), pwmOn' + PWM_OFF_MIN)
       /\ Abs(pwmTop' - pwmTop) <= 1]_vars

\* The regulator has stepped at a reading equal to the threshold, from a
\* period that is not at its floor
C3_Witness ==
  /\ pc = "loop" /\ last.op = "loop"
  /\ sensorHVSmoothed = rawHVADCThreshold /\ pwmTop = PWM_TOP_DEFAULT - 1

\* C4: setPWMOnTime(x) yields pwmOn = clamp(x, 50, min(500, pwmTop - 50))
\* for every x and every pwmTop in [300, 10000], leaves pwmTop unchanged,
\* and a second call with the same x changes nothing.
C4_SetPWMOnTime ==
  [][(pc = "call" /\ last.op = "setPWMOnTime" /\ last'.n = last.n + 1) =>
       /\ pwmOn' = Clamp(last.arg, PWM_PULSE_MIN,
                         Min(PWM_PULSE_MAX, pwmTop - PWM_OFF_MIN))
       /\ OCR1A' = pwmOn'
       /\ pwmTop' = pwmTop /\ ICR1' = ICR1
       /\ (last.n >= 1 => pwmOn' = pwmOn /\ OCR1A' = OCR1A)]_vars

\* setPWMOnTime has run twice with an x over pwmTop - 50
C4_Witness ==
  /\ pc = "call" /\ last.n = 2
  /\ last.arg > pwmTop - PWM_OFF_MIN /\ pwmOn = pwmTop - PWM_OFF_MIN
  /\ pwmOn < PWM_PULSE_MAX

\* C5: once setup() has finished, an iteration of loop() changes pwmOn or
\* OCR1A only when it takes a short press of the button in one of the two
\* PWM pulse modes; the regulator moves pwmTop alone.
C5_OnTimeFixed ==
  [][(pc = "loop" /\ (pwmOn' # pwmOn \/ OCR1A' # OCR1A)) =>
       /\ last'.press
       /\ currentMode' \in {MODE_PULSE_UP, MODE_PULSE_DOWN}]_vars

\* An iteration without a press has run in a pulse mode after a press has
\* changed the on time: the regulator has moved the period, the on time
\* is as the press left it
C5_Witness ==
  /\ pc = "loop" /\ last.op = "loop" /\ ~last.press
  /\ currentMode = MODE_PULSE_UP
  /\ pwmOn = PWM_PULSE_DEFAULT + 20 /\ OCR1A = pwmOn
  /\ pwmTop > PWM_TOP_DEFAULT + 25

\* The period setup() starts the loop with when no calibration runs: the
\* stored values, as the PWM profile clamps them
StartTop ==
  LET s == readEEPROMValues(Cur)
      s1 == setPWMOnTime(s, s.pwmOn)
      s2 == setPWMTopTime(s1, s1.pwmTop)
  IN  s2.pwmTop

\* The least period setPWMTopTime accepts
TopFloor == Max(PWM_TOP_MIN, pwmOn + PWM_OFF_MIN)

\* C6 (as stated): with the smoothed reading equal to the threshold in
\* every regulator step, pwmTop stays within one tick of the value it
\* started with.
C6_Band == pc = "loop" => Abs(pwmTop - StartTop) <= 1

\* C6 (as the code has it): with the smoothed reading equal to the
\* threshold in every regulator step, pwmTop goes down by one tick per
\* step until it is max(PWM_TOP_MIN, pwmOn + PWM_OFF_MIN), and stays there.
C6_RampToFloor == pc = "loop" => pwmTop = Max(StartTop - loopCounter, TopFloor)

\* The period has come down to its floor from more than one tick above,
\* and further steps have left it there
C6_Witness ==
  /\ pc = "loop" /\ pwmTop = TopFloor /\ StartTop > TopFloor + 1
  /\ loopCounter > StartTop - TopFloor + 1


\* ---------------------------------------------------------------------
\* Properties of the digit renderer
\* ---------------------------------------------------------------------
\* C7: a slot in Fade mode, idle, not blanked, that starts a fade with
\* fadeSteps = N in 20..200 towards a target that is then held, keeps its
\* old current value after each of the first N-1 impressions and has the
\* target value after the N-th.
C7_FadeLength ==
  \A i \in Slots :
    (hist[i].kind = "fade" /\ hist[i].steps \in FADE_STEPS_MIN .. FADE_STEPS_MAX) =>
      /\ hist[i].n <= hist[i].steps
      /\ hist[i].n < hist[i].steps => currNumberArray[i] = hist[i].from
      /\ hist[i].n = hist[i].steps => currNumberArray[i] = hist[i].to

\* A fade of 200 steps has had its 200th impression
C7_Witness ==
  \E i \in Slots :
    /\ hist[i].kind = "fade" /\ hist[i].steps = FADE_STEPS_MAX
    /\ hist[i].n = FADE_STEPS_MAX /\ hist[i].from # hist[i].to
    /\ currNumberArray[i] = hist[i].to

\* The fade of the end-to-end scenario: from 3 to 7 in 50 steps at full
\* ambient light
Fade3To7(i) ==
  /\ hist[i].kind = "fade" /\ hist[i].from = 3 /\ hist[i].to = 7
  /\ hist[i].steps = FADE_STEPS_DEFAULT

\* C8 as stated: over the 50 impressions of the fade the switch step is
\* 1000, 980, ..., 20, that is 1000 - 20 * (k - 1) at the k-th impression.
C8_AsStated ==
  \A i \in Slots :
    Fade3To7(i) =>
      digitSwitchTime[i] =
        DIGIT_DISPLAY_COUNT
          - (DIGIT_DISPLAY_COUNT \div FADE_STEPS_DEFAULT) * (hist[i].n - 1)

\* C8: with offCount = 999 and fadeSteps = 50 (so fadeStep = 19), a fade
\* from 3 to 7 leaves, after its k-th impression, fadeState = 50 - k and
\* switchStep = (50 - k) * 19 for k = 1..49 (931, 912, ..., 19) with the
\* current value still 3; the 50th impression leaves switchStep = 1000,
\* currentValue = 7 and fadeState = 0.
C8_FadeSequence ==
  \A i \in Slots :
    Fade3To7(i) =>
      /\ digitOffCount = DIGIT_DISPLAY_OFF
      /\ fadeStep = DIGIT_DISPLAY_OFF \div FADE_STEPS_DEFAULT
      /\ fadeState[i] = FADE_STEPS_DEFAULT - hist[i].n
      /\ hist[i].n < FADE_STEPS_DEFAULT =>
           /\ digitSwitchTime[i] = (FADE_STEPS_DEFAULT - hist[i].n) * fadeStep
           /\ currNumberArray[i] = 3
      /\ hist[i].n = FADE_STEPS_DEFAULT =>
           /\ digitSwitchTime[i] = DIGIT_DISPLAY_COUNT
           /\ currNumberArray[i] = 7

\* The fade from 3 to 7 has had its 50th impression
C8_Witness ==
  \E i \in Slots :
    /\ Fade3To7(i) /\ hist[i].n = FADE_STEPS_DEFAULT
    /\ currNumberArray[i] = 7 /\ fadeState[i] = 0

\* C9: a scroll that starts from idle with target 0, scrollback on, current
\* value c in 1..9 and scrollSteps = M in 1..40 has, after k impressions,
\* the current value c - (k div M): one less at every M-th impression and
\* at no other, 0 after c * M impressions and never less.
C9_ScrollLength ==
  \A i \in Slots :
    (/\ hist[i].kind = "scroll" /\ hist[i].from \in 1 .. 9
     /\ hist[i].steps \in SCROLL_STEPS_MIN .. SCROLL_STEPS_MAX) =>
      /\ hist[i].to = 0 /\ scrollback
      /\ hist[i].n <= hist[i].from * hist[i].steps
      /\ currNumberArray[i] = hist[i].from - (hist[i].n \div hist[i].steps)
      /\ currNumberArray[i] >= 0

\* A scroll from 9 with 40 steps has reached 0 at its 360th impression
C9_Witness ==
  \E i \in Slots :
    /\ hist[i].kind = "scroll" /\ hist[i].from = 9
    /\ hist[i].steps = SCROLL_STEPS_MAX
    /\ hist[i].n = 9 * SCROLL_STEPS_MAX /\ currNumberArray[i] = 0

\* The display type outputDisplay computes the on and off steps of a slot
\* with: the configured type, or BLANKED under the global blanked flag
ConfiguredType(i) == IF blanked THEN BLANKED ELSE displayType[i]

\* loop() has just rendered an impression
Rendered == pc = "loop" /\ last.op = "loop" /\ currentMode # MODE_DIGIT_BURN

C11_DecimalDigits ==
  \A i \in Slots : NumberArray[i] \in 0 .. 9 /\ currNumberArray[i] \in 0 .. 9

\* The version display has faded the last slot to the byte (0 - 6) % 10
\* stores, which is past the 16 entries of decodeDigit
C11_OutOfTable ==
  /\ pc = "loop" /\ currentMode = MODE_TIME /\ tempDisplayMode = TEMP_MODE_VERSION
  /\ NumberArray[5] = Byte(MODE_TIME - MODE_12_24)
  /\ currNumberArray[5] = NumberArray[5] /\ currNumberArray[5] >= 16

\* C12: in every reachable state and for every slot, fadeState[i] is not
\* negative and not greater than the configured count of its transition,
\* hence at most max(fadeSteps, scrollSteps), also after fadeSteps or
\* scrollSteps have been changed through the menu.
C12_FadeStateBound ==
  \A i \in Slots : fadeState[i] >= 0 /\ fadeState[i] <= Max(fadeSteps, scrollSteps)

\* A countdown left pending by the version display is greater than
\* fadeSteps after short presses in MODE_FADE_STEPS_DOWN
C12_StaleCountdown ==
  /\ pc = "loop" /\ currentMode = MODE_FADE_STEPS_DOWN
  /\ fadeSteps \in FADE_STEPS_MIN .. FADE_STEPS_MAX
  /\ \E i \in Slots : fadeState[i] > fadeSteps /\ fadeState[i] > scrollSteps

\* C13: after every render pass and for every slot, currNumberArray[i] ==
\* NumberArray[i] implies fadeState[i] == 0.
C13_IdleWhenConverged ==
  Rendered =>
    \A i \in Slots : currNumberArray[i] = NumberArray[i] => fadeState[i] = 0

\* A fade interrupted by the preview of a menu mode: the slot has taken
\* its target in one impression and its countdown is still pending
C13_InterruptedFade ==
  /\ Rendered /\ nextMode # currentMode
  /\ \E i \in Slots :
       /\ hist[i].kind = "snap" /\ currNumberArray[i] = NumberArray[i]
       /\ fadeState[i] > 0

\* The slot was lit in the last render pass: its on step is not the
\* never sentinel
Lit(i) == digitOnTime[i] # DIGIT_DISPLAY_NEVER

\* C14: in every slot render in which the slot is lit, onStep <
\* switchStep, for every fadeSteps in 20..200, every offCount in 100..999
\* and every fadeState reached during a fade.
C14_OnBeforeSwitch ==
  (Rendered /\ fadeSteps \in FADE_STEPS_MIN .. FADE_STEPS_MAX
     /\ digitOffCount \in DIGIT_DISPLAY_MIN_DIM .. DIGIT_DISPLAY_OFF) =>
    \A i \in Slots : Lit(i) => digitOnTime[i] < digitSwitchTime[i]

\* A fade in progress in the dark with more fade steps than off steps:
\* fadeStep is 0 and the decoder is switched at the step the digit is
\* turned on
C14_SwitchAtOn ==
  /\ Rendered /\ fadeSteps = FADE_STEPS_MAX /\ digitOffCount = DIGIT_DISPLAY_MIN_DIM
  /\ fadeStep = 0
  /\ \E i \in Slots :
       /\ hist[i].kind = "fade" /\ hist[i].n < hist[i].steps /\ fadeState[i] > 0
       /\ Lit(i) /\ digitSwitchTime[i] = digitOnTime[i]

BlinkStateSeen == ((loopCounter - 1) \div BLINK_COUNT_MAX) % 2 = 0

\* C16: one blink counter is shared by all slots. From power-on
\* (blinkCounter = 0, blinkState on) blinkCounter is the number of
\* impressions modulo BLINK_COUNT_MAX = 25, so it stays in 0..24, and
\* blinkState has inverted once for every 25 impressions and not before;
\* all Blink slots of one impression are lit or dark together, as the
\* blink state before that impression says.
C16_BlinkToggle ==
  /\ blinkCounter \in 0 .. BLINK_COUNT_MAX - 1
  /\ blinkCounter = loopCounter % BLINK_COUNT_MAX
  /\ blinkState = ((loopCounter \div BLINK_COUNT_MAX) % 2 = 0)
  /\ Rendered =>
       \A i \in Slots : ConfiguredType(i) = BLINK => (Lit(i) <=> BlinkStateSeen)

\* An impression after the first inversion in which the Blink slots are dark
C16_Witness ==
  /\ Rendered
  /\ loopCounter > BLINK_COUNT_MAX + 1
  /\ ~blinkState
  /\ \E i \in Slots : ConfiguredType(i) = BLINK
  /\ \A i \in Slots : ConfiguredType(i) = BLINK => ~Lit(i)

\* The impressions calibrateHVG has rendered when it is in pass calPass at
\* index calI
CalibImpressions == (calPass - 1) * CALIB_PASS_ITERATIONS + calI

\* One step of calibrateHVG: an impression of the running pass, the move to
\* the next pass after its last impression, or the return after the last
\* impression of pass 4
CalibProgress ==
  \/ /\ calI < CALIB_PASS_ITERATIONS
     /\ pc' = "calib" /\ calPass' = calPass /\ calI' = calI + 1
     /\ blinkCounter' = (blinkCounter + 1) % BLINK_COUNT_MAX
  \/ /\ calI = CALIB_PASS_ITERATIONS /\ calPass < 4
     /\ pc' = "calib" /\ calPass' = calPass + 1 /\ calI' = 0
     /\ blinkCounter' = blinkCounter
  \/ /\ calI = CALIB_PASS_ITERATIONS /\ calPass = 4
     /\ pc' = "finish" /\ blinkCounter' = blinkCounter

\* C17: calibrateHVG always terminates, whatever the readings are: every
\* step of it is an impression or the end of a pass of 768 impressions, so
\* each step brings the end nearer; it has rendered calPass - 1 passes and
\* calI impressions at any time (the blink counter has counted them); it
\* returns only after the 768th impression of pass 4, i.e. after
\* 4 * 768 = 3072 impressions; and in no state of it is the next step
\* impossible, whatever was read before.
C17_CalibrationTerminates ==
  /\ [][pc = "calib" => CalibProgress]_vars
  /\ [](pc = "calib" =>
          /\ calPass \in 1 .. 4 /\ calI \in 0 .. CALIB_PASS_ITERATIONS
          /\ blinkCounter = CalibImpressions % BLINK_COUNT_MAX
          /\ blinkState = ((CalibImpressions \div BLINK_COUNT_MAX) % 2 = 0))
  /\ [](pc = "calib" => ENABLED CalibStep)

\* calibrateHVG has returned after 3072 impressions with the supply under
\* the threshold: the regulator of pass 4 has run pwmTop down to its minimum
C17_Witness ==
  /\ pc = "finish"
  /\ EEPROM[EE_HVG_NEED_CALIB] = 0
  /\ blinkCounter = (4 * CALIB_PASS_ITERATIONS) % BLINK_COUNT_MAX
  /\ sensorHVSmoothed < rawHVADCThreshold
  /\ pwmTop = PWM_TOP_MIN

\* Pass 2 of the calibration after at least one impression, with the
\* supply under the threshold: the reading is held through the pass, so
\* it has been under the threshold at every impression of it so far.
Pass2Under ==
  /\ pc = "calib" /\ calPass = 2 /\ calI > 0
  /\ sensorHVSmoothed < rawHVADCThreshold

\* The impressions of a pass with index 0 .. n - 1 whose index is a
\* multiple of 8
MultiplesOf8Below(n) == (n + 7) \div 8

\* C18: in pass 2, started at pwmOn = PWM_PULSE_MIN, with the reading under
\* the threshold at every impression, pwmOn has been incremented once for
\* each impression whose index is a multiple of 8, up to the clamps
\* PWM_PULSE_MAX and pwmTop - PWM_OFF_MIN: after the 768 impressions it has
\* been incremented 768 / 8 = 96 times.
C18_Pass2Increments ==
  Pass2Under =>
    /\ pwmOn = Min(PWM_PULSE_MIN + MultiplesOf8Below(calI),
                   Min(PWM_PULSE_MAX, pwmTop - PWM_OFF_MIN))
    /\ calI = CALIB_PASS_ITERATIONS
         => MultiplesOf8Below(calI) = CALIB_PASS_ITERATIONS \div 8

\* The end of pass 2 with the supply under the threshold: 96 increments
C18_Witness ==
  /\ Pass2Under
  /\ calI = CALIB_PASS_ITERATIONS
  /\ pwmOn = PWM_PULSE_MIN + 96

\* The state the calibration leaves to pass 4 and pass 4 does not touch:
\* the on time and its register, the threshold, the target voltage
OnTimeSide == <<pwmOn, OCR1A, bottomOnValue, rawHVADCThreshold, hvTargetVoltage>>

\* C19: the on time found by pass 2 is kept as bottomOnValue through
\* pass 3; after pass 3 pwmOn (and OCR1A) is set to the integer average
\* (bottomOnValue + topOnValue) / 2, topOnValue being pwmOn at the end of
\* pass 3; no impression of pass 4 changes pwmOn, and neither does the
\* return, so pwmOn at the end of calibrateHVG is that average, whatever
\* the readings are. Pass 4 steps pwmTop only.
C19_AverageOnTime ==
  [][pc = "calib" =>
       /\ (calPass = 2 /\ calI = CALIB_PASS_ITERATIONS) => bottomOnValue' = pwmOn
       /\ (calPass = 3 /\ calI < CALIB_PASS_ITERATIONS) => bottomOnValue' = bottomOnValue
       /\ (calPass = 3 /\ calI = CALIB_PASS_ITERATIONS)
            => /\ pwmOn' = (bottomOnValue + pwmOn) \div 2
               /\ OCR1A' = pwmOn'
               /\ bottomOnValue' = bottomOnValue
       /\ (calPass = 4 /\ calI < CALIB_PASS_ITERATIONS)
            => /\ OnTimeSide' = OnTimeSide
               /\ pwmTop' \in {pwmTop - 1, pwmTop, pwmTop + 1}
       /\ (calPass = 4 /\ calI = CALIB_PASS_ITERATIONS)
            => /\ pwmOn' = pwmOn /\ OCR1A' = OCR1A /\ pwmTop' = pwmTop
               /\ pc' = "finish"]_vars

\* The end of pass 4 after a pass 2 under and a pass 3 over the threshold:
\* bottomOnValue = 146, topOnValue = 146 + 50 - 96 = 100, pwmOn = 123, and
\* pass 4 has moved pwmTop
C19_Witness ==
  /\ pc = "calib" /\ calPass = 4 /\ calI = CALIB_PASS_ITERATIONS
  /\ bottomOnValue = PWM_PULSE_MIN + 96
  /\ pwmOn = (bottomOnValue + (bottomOnValue + 50 - 96)) \div 2
  /\ OCR1A = pwmOn
  /\ sensorHVSmoothed > rawHVADCThreshold /\ pwmTop > PWM_TOP_MIN

\* C20 as stated: in all four passes of the calibration every impression
\* is rendered with all six targets equal to 8 and all six display types
\* Bright. (calI > 0: the pass has rendered an impression, and the state
\* holds the targets and types it was rendered with.)
C20_AsStated ==
  (pc = "calib" /\ calI > 0) =>
    \A i \in Slots : NumberArray[i] = 8 /\ displayType[i] = BRIGHT

\* C20: every impression of the four passes is rendered with all six
\* display types Bright (on at step 0, off at step 999). In passes 1 and 4
\* all six targets are 8; in passes 2 and 3 the slots 0..3 show the
\* decimal digits of pwmOn as it is before the impression.
C20_CalibrationPattern ==
  [][(pc = "calib" /\ calI < CALIB_PASS_ITERATIONS) =>
       /\ \A i \in Slots :
            /\ displayType'[i] = BRIGHT
            /\ digitOnTime'[i] = DIGIT_DISPLAY_ON
            /\ digitOffTime'[i] = DIGIT_DISPLAY_OFF
       /\ calPass \in {1, 4} => \A i \in Slots : NumberArray'[i] = 8
       /\ calPass \in {2, 3} =>
            /\ NumberArray'[0] = (pwmOn \div 1000) % 10
            /\ NumberArray'[1] = (pwmOn \div 100) % 10
            /\ NumberArray'[2] = (pwmOn \div 10) % 10
            /\ NumberArray'[3] = pwmOn % 10]_vars

\* The last impression of pass 2 with the supply under the threshold shows
\* the on time reached, 0146, all Bright
C20_Witness ==
  /\ pc = "calib" /\ calPass = 2 /\ calI = CALIB_PASS_ITERATIONS
  /\ pwmOn = PWM_PULSE_MIN + 96
  /\ NumberArray[0] = 0 /\ NumberArray[1] = 1 /\ NumberArray[2] = 4 /\ NumberArray[3] = 6
  /\ \A i \in Slots : displayType[i] = BRIGHT

\* C21: the regulation threshold follows the calibration: the ADC value of
\* the target voltage + 5 in passes 1 and 4, the ADC value of the target
\* voltage in passes 2 and 3, and the ADC value of the target voltage
\* again when loop() is entered, whether calibrateHVG ran or not.
C21_ThresholdPhases ==
  /\ (pc = "calib" /\ calPass \in {1, 4})
       => rawHVADCThreshold = getRawHVADCThreshold(hvTargetVoltage + 5)
  /\ (pc = "calib" /\ calPass \in {2, 3})
       => rawHVADCThreshold = getRawHVADCThreshold(hvTargetVoltage)
  /\ (pc = "loop" /\ loopCounter = 0)
       => rawHVADCThreshold = getRawHVADCThreshold(hvTargetVoltage)

\* loop() is entered after a calibration (3072 impressions counted by the
\* blink counter) with the threshold back under the one of pass 4
C21_Witness ==
  /\ pc = "loop" /\ loopCounter = 0
  /\ blinkCounter = (4 * CALIB_PASS_ITERATIONS) % BLINK_COUNT_MAX
  /\ rawHVADCThreshold = getRawHVADCThreshold(hvTargetVoltage)
  /\ rawHVADCThreshold < getRawHVADCThreshold(hvTargetVoltage + 5)

\* The PWM words as stored, read the way readEEPROMValues reads them
StoredPulse == Int16(EEPROM[EE_PULSE_HI] * 256 + EEPROM[EE_PULSE_LO])
StoredTop == Int16(EEPROM[EE_PWM_TOP_HI] * 256 + EEPROM[EE_PWM_TOP_LO])

StoredPWMBad ==
  \/ StoredPulse < PWM_PULSE_MIN \/ StoredPulse > PWM_PULSE_MAX
  \/ StoredTop < PWM_TOP_MIN \/ StoredTop > PWM_TOP_MAX

CalibFlag == EEPROM[EE_HVG_NEED_CALIB] # 0

\* C22: the calibration is one-shot and driven by the stored flag. The
\* flag is set by the factory reset and, when the configuration is read,
\* by a stored pwmOn or pwmTop out of range (a blank EEPROM has both);
\* calibrateHVG is entered from the test of the flag in setup() and
\* nowhere else, and if and only if the flag is set then; its return
\* stores pwmOn and pwmTop, in range, and clears the flag; and a start
\* that follows on the storage as it was left does not calibrate.
C22_OneShotCalibration ==
  /\ [][/\ pc = "reset" => (EEPROM' = EEPROM \/ CalibFlag')
        /\ pc = "eeprom" => (CalibFlag' <=> (CalibFlag \/ StoredPWMBad))
        /\ pc = "hvgo" => /\ pc' \in {"calib", "finish"}
                          /\ pc' = "calib" <=> CalibFlag
        /\ (pc' = "calib" /\ pc # "calib") => pc = "hvgo"
        /\ (pc = "calib" /\ pc' # "calib")
             => /\ pc' = "finish" /\ ~CalibFlag' /\ ~StoredPWMBad'
                /\ StoredPulse' = pwmOn' /\ StoredTop' = pwmTop']_vars
  /\ [](last.op = "boot" => (pc # "calib" /\ ~CalibFlag /\ ~StoredPWMBad))

\* The second start, on the storage a calibration left, has passed the
\* test of the flag without calibrating (the blink counter has not moved)
C22_Witness ==
  /\ last.op = "boot" /\ pc = "finish"
  /\ blinkCounter = 0
  /\ StoredPulse = pwmOn /\ StoredTop = pwmTop
  /\ StoredPulse # PWM_PULSE_DEFAULT
\* ---------------------------------------------------------------------
\* Properties of the configuration values
\* ---------------------------------------------------------------------
\* A step of loop(): the iteration has computed fadeStep = digitOffCount /
\* fadeSteps with the value fadeSteps has after the step (nothing after
\* the division in the iteration assigns fadeSteps).
LoopStep == pc = "loop" /\ loopCounter' # loopCounter /\ last'.op = "loop"

\* C23: wherever loop() computes fadeStep = digitOffCount / fadeSteps,
\* fadeSteps is not 0 and lies within [FADE_STEPS_MIN, FADE_STEPS_MAX],
\* after any stored configuration, menu presses and bus messages.
C23_FadeStepsAtDivision ==
  [][LoopStep => fadeSteps' \in FADE_STEPS_MIN .. FADE_STEPS_MAX]_vars

\* An iteration of loop() has divided by fadeSteps = 0, set by the bus
\* message that came last before it
C23_DivisionByZero ==
  /\ pc = "loop" /\ last.op = "loop" /\ ~useRTC
  /\ fadeSteps = 0
  /\ EEPROM[EE_FADE_STEPS] = 0

\* The configuration variables of the model lie within their bounds
ConfigInRange ==
  /\ fadeSteps \in FADE_STEPS_MIN .. FADE_STEPS_MAX
  /\ scrollSteps \in SCROLL_STEPS_MIN .. SCROLL_STEPS_MAX
  /\ dateFormat \in DATE_FORMAT_MIN .. DATE_FORMAT_MAX
  /\ dayBlanking \in DAY_BLANKING_MIN .. DAY_BLANKING_MAX
  /\ backlightMode \in BACKLIGHT_MIN .. BACKLIGHT_MAX
  /\ hvTargetVoltage \in HVGEN_TARGET_VOLTAGE_MIN .. HVGEN_TARGET_VOLTAGE_MAX
  /\ pwmOn \in PWM_PULSE_MIN .. PWM_PULSE_MAX
  /\ pwmTop \in PWM_TOP_MIN .. PWM_TOP_MAX

\* readEEPROMValues has run in this step
ReadStep == pc = "eeprom" /\ pc' = "profile"

\* C24: after readEEPROMValues and after receiveEvent every configuration
\* variable lies within its [MIN, MAX] bounds, whatever the stored bytes
\* and the bytes of the message: a value out of range has been replaced.
C24_ConfigInRange ==
  [][(ReadStep \/ last'.op = "receive") => ConfigInRange']_vars

\* receiveEvent has stored a date format and a scroll step count that are
\* out of range, in the variables and in the EEPROM
C24_OutOfRangeStored ==
  /\ last.op = "receive"
  /\ dateFormat > DATE_FORMAT_MAX /\ EEPROM[EE_DATE_FORMAT] = dateFormat
  /\ scrollSteps > SCROLL_STEPS_MAX /\ EEPROM[EE_SCROLL_STEPS] = scrollSteps

\* ---------------------------------------------------------------------
\* Properties of the ambient dimming
\* ---------------------------------------------------------------------
\* The step is one call of getDimmingFromLDR with some sample: the value
\* it returns is in digitOffCount and the smoothed reading has moved once
SampledOnce ==
  \E analog \in LDRSamples :
    /\ digitOffCount' = getDimmingFromLDR(Cur, analog)
    /\ sensorLDRSmoothed' = LDRSmoothed(Cur, analog)

\* C25: digitOffCount is in [DIGIT_DISPLAY_MIN_DIM, DIGIT_DISPLAY_OFF] in
\* every reachable state, for every light sample and every stored dimDark,
\* dimBright and smoothing count; every iteration of loop() recomputes it
\* once, and the impression rendered in the iteration uses the new value.
C25_DimmingRange ==
  /\ [](digitOffCount \in DIGIT_DISPLAY_MIN_DIM .. DIGIT_DISPLAY_OFF)
  /\ [][LoopStep =>
          /\ SampledOnce
          /\ \A i \in Slots :
               ConfiguredType(i)' \in {FADE, NORMAL, SCROLL} =>
                 digitOffTime'[i] = digitOffCount']_vars

\* An impression rendered with a reading that was scaled past
\* DIGIT_DISPLAY_OFF and cut to it: dimDark = 0, dimBright = 900 and full
\* light give 900 * 1.665 = 1498
C25_Witness ==
  /\ Rendered /\ loopCounter = LDRLoops
  /\ digitOffCount = DIGIT_DISPLAY_OFF
  /\ (dimBright - dimDark) * sensorFactor > DIGIT_DISPLAY_OFF * LDRUnit
  /\ sensorLDRSmoothed >= (dimDark + dimBright) * LDRUnit
  /\ \E i \in Slots : Lit(i) /\ digitOffTime[i] = digitOffCount

\* ---------------------------------------------------------------------
\* Properties of the anode drive
\* ---------------------------------------------------------------------
\* A step of loop() that rendered an impression with outputDisplay. The
\* blanked flag and the display types are not assigned after the start of
\* the pass; blinkState is inverted at its end only.
RenderStep ==
  LoopStep /\ currentMode' # MODE_DIGIT_BURN /\ nextMode' # MODE_DIGIT_BURN

\* Slot i was dark in the last pass: digitOn was not called and digitOff
\* was called at step 0
Dark(i) == digitOnTime[i] = DIGIT_DISPLAY_NEVER /\ digitOffTime[i] = DIGIT_DISPLAY_ON

AnodesLow == PORTC = {} /\ PORTD = {}

\* C26: in a render pass that starts with the blanked flag set, digitOn
\* is not called for any slot and every slot's off event is at step 0,
\* whatever the display types, targets and current values, so no anode is
\* left high and the HV driver is off; with the flag clear the same holds
\* for each slot that is BLANKED, and each BLINK slot when blinkState was
\* false at the start of the pass.
C26_BlankedDark ==
  [][RenderStep =>
       /\ blanked' => /\ \A i \in Slots : Dark(i)'
                      /\ AnodesLow' /\ TCCR1A' = tccrOff'
       /\ \A i \in Slots :
            (displayType'[i] = BLANKED \/ (displayType'[i] = BLINK /\ ~blinkState))
              => Dark(i)']_vars

\* A pass with the blanked flag set in which a slot was scrolling back to
\* 0 and another slot was not configured BLANKED
C26_Witness ==
  /\ Rendered /\ blanked
  /\ \A i \in Slots : Dark(i)
  /\ \E i \in Slots : hist[i].kind = "scroll" /\ currNumberArray[i] # NumberArray[i]
  /\ \E i \in Slots : displayType[i] # BLANKED

\* C27: in every render pass, every lit slot is switched on at step 0 and
\* off at a step from DIGIT_DISPLAY_MIN_DIM to DIGIT_DISPLAY_OFF = 999 of
\* the DIGIT_ANTI_GHOST = 1010 steps of its timer loop, for every display
\* type and ambient value; at least 10 steps follow the off event, and
\* through them, up to the on event of the next slot, all six anode lines
\* are low.
C27_AntiGhost ==
  Rendered =>
    /\ \A i \in Slots :
         Lit(i) => /\ digitOnTime[i] = DIGIT_DISPLAY_ON
                   /\ digitOffTime[i] \in DIGIT_DISPLAY_MIN_DIM .. DIGIT_DISPLAY_OFF
                   /\ (DIGIT_ANTI_GHOST - 1) - digitOffTime[i] >= 10
    /\ AnodesLow

\* A pass at full brightness in which a Bright, a Blink and a Fade slot
\* were lit to the last step of the display range
C27_Witness ==
  /\ Rendered /\ digitOffCount = DIGIT_DISPLAY_OFF /\ AnodesLow
  /\ \E i, j \in Slots :
       /\ Lit(i) /\ displayType[i] = BRIGHT /\ digitOffTime[i] = DIGIT_DISPLAY_OFF
       /\ Lit(j) /\ displayType[j] = BLINK /\ digitOffTime[j] = DIGIT_DISPLAY_OFF
  /\ loopCounter > 1

\* The anode line of a digit, as a port and a bit weight
AnodeHigh(s, digit) ==
  CASE digit = 0 -> 8 \in s.PORTC
    [] digit = 1 -> 4 \in s.PORTC
    [] digit = 2 -> 16 \in s.PORTD
    [] digit = 3 -> 4 \in s.PORTD
    [] digit = 4 -> 2 \in s.PORTD
    [] digit = 5 -> 1 \in s.PORTD

HandlerStep ==
  /\ last'.op \in {"receive", "request"}
  /\ pc' = pc /\ loopCounter' = loopCounter /\ calPass' = calPass /\ calI' = calI

\* C29: receiveEvent and requestEvent, run at any point after they are
\* registered in setup() or between iterations of loop(), write none of
\* NumberArray, currNumberArray, displayType, fadeState, blinkState,
\* pwmOn, pwmTop, rawHVADCThreshold and the Timer1 registers; they run
\* only when no RTC was found.
C29_HandlersWriteSet ==
  [][HandlerStep =>
       /\ UNCHANGED <<NumberArray, currNumberArray, displayType, fadeState, blinkState,
                      blinkCounter, pwmOn, pwmTop, rawHVADCThreshold, tccrOn, tccrOff,
                      TCCR1A, ICR1, OCR1A, PORTC, PORTD>>
       /\ ~useRTC]_vars

\* receiveEvent has set the fade steps between two iterations of loop()
\* while slots were fading
C29_Witness ==
  /\ pc = "loop" /\ loopCounter > 0 /\ last.op = "receive"
  /\ fadeSteps = FADE_STEPS_MAX /\ EEPROM[EE_FADE_STEPS] = FADE_STEPS_MAX
  /\ \E i \in Slots : fadeState[i] > 0 /\ currNumberArray[i] # NumberArray[i]
  /\ TCCR1A = tccrOff

\* ---------------------------------------------------------------------
\* Properties of the scrollback
\* ---------------------------------------------------------------------
\* The scrollback test of slot i in the pass of this step: the target
\* (loaded before the pass) differs from the current value (as the pass
\* before left it), is 0, and scrollback is enabled
ScrollbackApplies(i) ==
  NumberArray'[i] # currNumberArray[i] /\ NumberArray'[i] = 0 /\ scrollback'

\* C30: in a render pass a slot whose target differs from its current
\* value, whose target is 0 and for which scrollback is enabled takes the
\* Scroll transition whatever its configured display type and the blanked
\* flag, while its on and off steps are those of the configured type (or
\* of BLANKED under the flag); every other slot takes the transition of
\* its configured type.
C30_ScrollbackOverride ==
  [][RenderStep =>
       \A i \in Slots :
         /\ digitOnTime'[i] = OnTimeOf(ConfiguredType(i)', blinkState, digitOnTime'[i])
         /\ digitOffTime'[i] = OffTimeOf(ConfiguredType(i)', blinkState, digitOffCount',
                                        digitOffTime'[i])
         /\ \E tr \in {IF ScrollbackApplies(i)
                        THEN ScrollBranch(NumberArray'[i], currNumberArray[i], fadeState[i],
                                          scrollSteps')
                        ELSE Transition(ConfiguredType(i)', NumberArray'[i],
                                        currNumberArray[i], fadeState[i], fadeSteps',
                                        fadeStep', scrollSteps', digitSwitchTime'[i])} :
              /\ currNumberArray'[i] = tr.c /\ fadeState'[i] = tr.f
              /\ digitSwitchTime'[i] = tr.sw]_vars

\* A pass in the preview of a setting: a Dimmed slot was scrolled one step
\* back toward 0 with the on and off steps of Dimmed, and another slot
\* with a non-zero target took it at once
C30_Witness ==
  /\ Rendered /\ scrollback /\ ~blanked
  /\ \E i, j \in Slots :
       /\ displayType[i] = DIMMED /\ hist[i].kind = "scroll"
       /\ NumberArray[i] = 0 /\ currNumberArray[i] # 0
       /\ digitOnTime[i] = DIGIT_DISPLAY_ON /\ digitOffTime[i] = DIM_VALUE
       /\ digitSwitchTime[i] = DIGIT_DISPLAY_OFF
       /\ displayType[j] \notin {FADE, SCROLL} /\ hist[j].kind = "snap"
       /\ NumberArray[j] # 0 /\ currNumberArray[j] = NumberArray[j]

\* ---------------------------------------------------------------------
\* Properties of the on and off steps
\* ---------------------------------------------------------------------
\* The pair of on and off steps of the display types
BlankedPair == <<DIGIT_DISPLAY_NEVER, 0>>
DimmedPair == <<0, DIGIT_DISPLAY_COUNT \div 5>>
BrightPair == <<0, DIGIT_DISPLAY_COUNT - 1>>
AmbientPair(offCount) == <<0, offCount>>

\* The pair of slot i in the last pass
StepPair(i) == <<digitOnTime[i], digitOffTime[i]>>

\* C31 as stated: the pair of on and off steps of a slot is Blanked
\* (never, 0), Dimmed (0, 200), Bright (0, 999), Fade and Normal (0,
\* ambient off count), Blink the Bright pair while blinkState is true and
\* the Blanked pair while it is false.
C31_AsStated ==
  [][RenderStep =>
       \A i \in Slots :
         StepPair(i)' =
           CASE ConfiguredType(i)' = BLANKED -> BlankedPair
             [] ConfiguredType(i)' = DIMMED -> DimmedPair
             [] ConfiguredType(i)' = BRIGHT -> BrightPair
             [] ConfiguredType(i)' = BLINK -> IF blinkState THEN BrightPair ELSE BlankedPair
             [] OTHER -> AmbientPair(digitOffCount')]_vars

\* C31: in every render pass the pair of on and off steps of a slot is
\* given by its display type (BLANKED under the blanked flag), the ambient
\* off count and blinkState at the start of the pass alone: Blanked
\* (never, 0), Dimmed (0, 200), Bright (0, 999), Fade and Normal (0,
\* ambient off count), and Blink the pair of Normal, (0, ambient off
\* count), while blinkState is true and the Blanked pair while it is false.
C31_StepPairs ==
  [][RenderStep =>
       \A i \in Slots :
         StepPair(i)' =
           CASE ConfiguredType(i)' = BLANKED -> BlankedPair
             [] ConfiguredType(i)' = DIMMED -> DimmedPair
             [] ConfiguredType(i)' = BRIGHT -> BrightPair
             [] ConfiguredType(i)' = BLINK ->
                  IF blinkState THEN AmbientPair(digitOffCount') ELSE BlankedPair
             [] OTHER -> AmbientPair(digitOffCount')]_vars

\* A pass in the dark in which a Blink slot was lit to the ambient off
\* count beside a Bright slot lit to the end of the range
C31_Witness ==
  /\ Rendered /\ ~blanked /\ digitOffCount = DIGIT_DISPLAY_MIN_DIM
  /\ \E i, j \in Slots :
       /\ displayType[i] = BLINK /\ StepPair(i) = AmbientPair(DIGIT_DISPLAY_MIN_DIM)
       /\ displayType[j] = BRIGHT /\ StepPair(j) = BrightPair

\* ---------------------------------------------------------------------
\* Properties of the display presets
\* ---------------------------------------------------------------------
\* The display type of slot i was changed in this iteration of loop(), by
\* one of the presets
TypeChanged(i) == displayType'[i] # displayType[i]

\* C32: whenever a display preset changes a slot's display type to a
\* different type, the slot's fadeState is 0 when the next render pass
\* starts: after that pass it is 0 when the pass ran the slot with a type
\* other than Fade and Scroll (the pass does not write it), and 0 or at
\* the first countdown value of a new transition otherwise.
C32_PresetResetsFade ==
  [][RenderStep =>
       \A i \in Slots :
         TypeChanged(i) =>
           \E tmp \in {EffectiveType(NumberArray'[i], currNumberArray[i], displayType'[i],
                                     blanked', scrollback')} :
              CASE tmp = FADE -> fadeState'[i] \in {0, fadeSteps' - 1}
                [] tmp = SCROLL -> fadeState'[i] \in {0, scrollSteps' - 1}
                [] OTHER -> fadeState'[i] = 0]_vars

\* In a setting mode after its preview: a slot that the preset made
\* Dimmed or Bright still holds the countdown of the fade it was in
C32_CountdownKept ==
  /\ Rendered /\ nextMode = currentMode
  /\ currentMode \in MODE_MINS_SET .. MODE_MAX
  /\ \E i \in Slots :
       /\ displayType[i] \in {DIMMED, BRIGHT}
       /\ currNumberArray[i] = NumberArray[i]
       /\ fadeState[i] > 1

\* ---------------------------------------------------------------------
\* Properties of the multiplexing
\* ---------------------------------------------------------------------
\* The number of anode lines that are high
AnodesHigh == Cardinality(PORTC) + Cardinality(PORTD)

\* C33: in every reachable state at most one of the six anode lines is
\* high, and every call of digitOn, in a render pass of loop(), in a pass
\* of the calibration and in the digit burn mode, is made while no anode
\* line other than that of its digit is high.
C33_MultiplexExclusion ==
  [][/\ AnodesHigh' <= 1
     /\ last'.op = "loop" => last'.arg = 0
     /\ pc = "calib" =>
          ForeignAnodesInPass([c |-> PORTC, d |-> PORTD], digitOnTime', digitOffTime') = 0
    ]_vars

\* The render pass that follows the digit burn mode has called digitOn
\* for slot 0 while the anode line of the burnt digit was high
C33_TwoAnodes ==
  /\ Rendered /\ currentMode = MODE_TIME /\ nextMode = MODE_TIME
  /\ digitBurnDigit # 0 /\ Lit(0)
  /\ last.arg = 1 /\ AnodesLow

\* ---------------------------------------------------------------------
\* Properties of the button
\* ---------------------------------------------------------------------
\* The release events that are pending in the button b
ReleaseEvents(b) ==
  {k \in {"8S", "2S", "1S", "short"} :
     CASE k = "8S" -> b.buttonPressRelease8S
       [] k = "2S" -> b.buttonPressRelease2S
       [] k = "1S" -> b.buttonPressRelease1S
       [] OTHER -> b.buttonPressRelease}

\* The class of a press that was held for the time held after the
\* debounce point
HoldClass(held) ==
  IF held > 8000 THEN "8S" ELSE IF held > 2000 THEN "2S"
  ELSE IF held > 1000 THEN "1S" ELSE "short"

\* The step is a call of checkButton that finds the pin released while
\* the button is at the debounce count
DebouncedRelease ==
  last'.op = "checkButton" /\ ~last'.press /\ isButtonPressedNow(button1)

\* The event a release query asks for
QueriedEvent(op) ==
  CASE op = "isButtonPressedReleased8S" -> "8S"
    [] op = "isButtonPressedReleased2S" -> "2S"
    [] op = "isButtonPressedReleased1S" -> "1S"
    [] OTHER -> "short"

\* C34: every release of a button that had reached the debounce count
\* leaves exactly one release event, of the class of the hold time since
\* the debounce point; no other call of checkButton changes the pending
\* events; at most one of the four release flags is set at any time; and
\* a query returns true exactly when its event is pending and clears it,
\* so that an event is reported once.
C34_ReleaseEvents ==
  [][/\ Cardinality(ReleaseEvents(button1')) <= 1
     /\ DebouncedRelease => ReleaseEvents(button1') = {HoldClass(ButtonHist.arg)}
     /\ (last'.op = "checkButton" /\ ~DebouncedRelease) =>
          ReleaseEvents(button1') = ReleaseEvents(button1)
     /\ last'.op \in ButtonOps \ {"checkButton"} =>
          /\ last'.press = (QueriedEvent(last'.op) \in ReleaseEvents(button1))
          /\ ReleaseEvents(button1') = ReleaseEvents(button1) \ {QueriedEvent(last'.op)}
    ]_vars

\* The button was read pressed five times and then released: it had
\* reached the debounce count, and no release event is pending
C34_PressDropped ==
  /\ last.op = "checkButton" /\ last.n = debounceCounter + 1 /\ ~last.press
  /\ button1.buttonWasReleased /\ button1.button1PressedCount = 0
  /\ ReleaseEvents(button1) = {}

\* What holds of the release events: as C34, for the releases that follow
\* a pressed sample after the debounce point (buttonPress set); a release
\* at the debounce count before such a sample clears the pending events
\* and leaves none
ReleaseEventsAfterHold ==
  [][/\ Cardinality(ReleaseEvents(button1')) <= 1
     /\ (DebouncedRelease /\ button1.buttonPress) =>
          ReleaseEvents(button1') = {HoldClass(ButtonHist.arg)}
     /\ (DebouncedRelease /\ ~button1.buttonPress) => ReleaseEvents(button1') = {}
     /\ (last'.op = "checkButton" /\ ~DebouncedRelease) =>
          ReleaseEvents(button1') = ReleaseEvents(button1)
     /\ last'.op \in ButtonOps \ {"checkButton"} =>
          /\ last'.press = (QueriedEvent(last'.op) \in ReleaseEvents(button1))
          /\ ReleaseEvents(button1') = ReleaseEvents(button1) \ {QueriedEvent(last'.op)}
    ]_vars

\* ---------------------------------------------------------------------
\* Properties of the menu
\* ---------------------------------------------------------------------
\* The EEPROM cells of the variables the menu modes change
MenuCells ==
  {EE_FADE_STEPS, EE_DATE_FORMAT, EE_DAY_BLANKING, EE_BLANK_LEAD_ZERO, EE_SCROLLBACK,
   EE_SCROLL_STEPS, EE_BACKLIGHT_MODE, EE_HV_VOLTAGE, EE_PULSE_LO, EE_PULSE_HI}

\* The EEPROM holds what saveEEPROMValues would write for these variables
ConfigSaved ==
  \E s \in {saveEEPROMValues(Cur)} : \A cell \in MenuCells : EEPROM[cell] = s.EEPROM[cell]

\* All display types are Fade, but for slot 0 under leading zero blanking
FadePreset ==
  \A i \in Slots :
    displayType[i] = FADE \/ (i = 0 /\ blankLeading /\ displayType[i] = BLANKED)

\* C35: an iteration of loop() that takes currentMode from a menu mode
\* 1..29 to MODE_TIME (a press of more than 2 seconds released, or a 1
\* second press past MODE_MAX) sets nextMode to MODE_TIME too, saves the
\* configuration and presets all display types to Fade; and whenever an
\* iteration ends in MODE_TIME the configuration is saved: no path from a
\* menu mode to MODE_TIME skips the save.
C35_LeaveSaves ==
  [][LoopStep =>
       /\ (currentMode \in MODE_MIN + 1 .. MODE_MAX /\ currentMode' = MODE_TIME) =>
            nextMode' = MODE_TIME /\ ConfigSaved' /\ FadePreset'
       /\ (currentMode' = MODE_TIME /\ nextMode' = MODE_TIME) => ConfigSaved']_vars

\* Back at the time display with the leading zero blanking that was
\* turned on in the menu in effect and the EEPROM cell still at 0
C35_Unsaved ==
  /\ pc = "loop" /\ last.op = "loop"
  /\ currentMode = MODE_TIME /\ nextMode = MODE_TIME
  /\ blankLeading /\ EEPROM[EE_BLANK_LEAD_ZERO] = 0


\* ---------------------------------------------------------------------
\* Properties of the clock
\* ---------------------------------------------------------------------
\* The sync time and the time last read, in seconds of the day
SyncSecsOfDay(d) == d.hours * 3600 + d.mins * 60 + d.secs
ReadSecsOfDay(d) == d.deltaHours * 3600 + d.deltaMins * 60 + d.deltaSecs

\* The iteration that follows finds the sync point older than the resync
\* period, and no press sets the minutes or hours in it
ResyncStep ==
  /\ LoopStep
  /\ getDelta(displayDate, nowMillis') > READ_TIME_PROVIDER_MILLIS
  /\ currentMode \notin {MODE_MINS_SET, MODE_HOURS_SET}

\* C36: the time is held in 24-hour form: the sync hours and the hours
\* read are within 0..23; the resync of every READ_TIME_PROVIDER_MILLIS
\* takes the reading of the RTC, or without an RTC the time last read, as
\* the new sync time, so that it leaves the time of day as it is; and an
\* iteration that switches hourMode leaves the sync time and the time
\* read as they are in an iteration that does not switch it.
C36_TimeOfDayKept ==
  [][LoopStep =>
       /\ displayDate'.hours \in 0..23
       /\ displayDate'.deltaHours \in 0..23
       /\ ResyncStep =>
            IF useRTC
            THEN \/ SyncSecsOfDay(displayDate') = SyncSecsOfDay(RTCAt(nowMillis'))
                 \/ displayDate' = displayDate
            ELSE SyncSecsOfDay(displayDate') = ReadSecsOfDay(displayDate)
       /\ displayDate'.hourMode # displayDate.hourMode =>
            displayDate' = [loopTime(Cur, nowMillis', RTCAt(nowMillis')).displayDate
                              EXCEPT !.hourMode = ~displayDate.hourMode]
  ]_vars

\* Without an RTC and in 12-hour mode, a resync has just taken the hour as
\* displayed for the sync hour: the time read was in the afternoon, the
\* sync time is twelve hours earlier.
C36_HalfDayLost ==
  /\ pc = "loop"
  /\ ~useRTC
  /\ displayDate.hourMode
  /\ displayDate.millisDate = nowMillis
  /\ displayDate.deltaHours > 12
  /\ displayDate.hours = displayDate.deltaHours - 12
  /\ SyncSecsOfDay(displayDate) = ReadSecsOfDay(displayDate) - 12 * 3600

\* What remains of C36 with an RTC or in 24-hour mode
TimeOfDayKeptIn24 ==
  [][LoopStep =>
       /\ displayDate'.hours \in 0..23
       /\ displayDate'.deltaHours \in 0..23
       /\ ResyncStep /\ (useRTC \/ ~displayDate.hourMode) =>
            IF useRTC
            THEN \/ SyncSecsOfDay(displayDate') = SyncSecsOfDay(RTCAt(nowMillis'))
                 \/ displayDate' = displayDate
            ELSE SyncSecsOfDay(displayDate') = ReadSecsOfDay(displayDate)
       /\ displayDate'.hourMode # displayDate.hourMode =>
            displayDate' = [loopTime(Cur, nowMillis', RTCAt(nowMillis')).displayDate
                              EXCEPT !.hourMode = ~displayDate.hourMode]
  ]_vars


\* ---------------------------------------------------------------------
\* Properties of DateTime::setDelta
\* ---------------------------------------------------------------------
\* setDelta(last.arg) has returned
SetDeltaDone == pc = "call" /\ last.op = "setDelta" /\ last.n = 1

\* C40: after setDelta, for a sync time with hours in 0..23, minutes and
\* seconds in 0..59 and any elapsed time that is not negative, deltaSecs
\* and deltaMins are within 0..59 and deltaHours within 0..23, and the
\* time they give is the sync time plus the whole seconds elapsed, modulo
\* 24 hours.
C40_SetDelta ==
  SetDeltaDone =>
    /\ displayDate.deltaSecs \in 0..59
    /\ displayDate.deltaMins \in 0..59
    /\ displayDate.deltaHours \in 0..23
    /\ ReadSecsOfDay(displayDate) =
         (SyncSecsOfDay(displayDate) + ((last.arg - displayDate.millisDate) \div 1000))
           % 86400

\* setDelta has carried 23:59:59 over midnight, after one second and
\* after a day, an hour, a minute and a second
C40_Midnight ==
  /\ SetDeltaDone
  /\ SyncSecsOfDay(displayDate) = 86399
  /\ \/ last.arg - displayDate.millisDate = 1000 /\ ReadSecsOfDay(displayDate) = 0
     \/ last.arg - displayDate.millisDate = 90061000 /\ ReadSecsOfDay(displayDate) = 3660


\* ---------------------------------------------------------------------
\* Properties of the on time bounds of the calibration
\* ---------------------------------------------------------------------
\* Pass 3 has rendered its last impression: pwmOn is topOnValue
PassThreeDone == pc = "calib" /\ calPass = 3 /\ calI = CALIB_PASS_ITERATIONS

DisplayModes == (MODE_MIN..MODE_MAX) \cup {MODE_DIGIT_BURN}

\* C38: after every iteration of loop() currentMode and nextMode are
\* each within MODE_MIN..MODE_MAX or equal to MODE_DIGIT_BURN, whatever
\* the button does and whatever dayBlanking and backlightMode are, also
\* after the iterations that skip the modes 11-12 and 19-22.
C38_ModesInRange ==
  pc = "loop" => currentMode \in DisplayModes /\ nextMode \in DisplayModes

\* The preview of a 1 second press in MODE_DAY_BLANKING has skipped the
\* blanking hours: currentMode has moved on with nextMode
C38_HoursSkipped ==
  /\ pc = "loop" /\ loopCounter > 0
  /\ dayBlanking < DAY_BLANKING_HOURS
  /\ currentMode = MODE_HR_BLNK_END
  /\ nextMode = MODE_SUPPRESS_ACP


\* ---------------------------------------------------------------------
\* Properties of the blanked flag
\* ---------------------------------------------------------------------
\* C39 as stated: in every iteration of loop() that renders with
\* currentMode in 1..29 or with a mode change in preview (nextMode #
\* currentMode) the blanked flag is false; blanked is true only in
\* MODE_TIME outside a temporary display.
C39_AsStated ==
  (pc = "loop" /\ blanked) =>
    /\ currentMode = MODE_TIME
    /\ nextMode = currentMode
    /\ secsDisplayEnd # "future"

\* C39: in every iteration of loop() that renders with currentMode in
\* 1..29 or with a mode change in preview the blanked flag is false;
\* blanked is true only in MODE_TIME outside a temporary display, or in
\* the digit burn mode, which an 8 second press enters from the blanked
\* time display with the flag as it is.
C39_BlankedOnlyInTime ==
  (pc = "loop" /\ blanked) =>
    /\ currentMode \in {MODE_TIME, MODE_DIGIT_BURN}
    /\ nextMode = currentMode
    /\ currentMode = MODE_TIME => secsDisplayEnd # "future"

\* A 1 second press from the blanked time display is in preview, or has
\* been released in MODE_MINS_SET: the flag, set at 10:00:00, is false.
\* (last.n is the position of the clock: 2 is 10:00:00.)
C39_Witness ==
  /\ pc = "loop" /\ last.op = "loop" /\ last.n = 2
  /\ dayBlanking = DAY_BLANKING_ALWAYS
  /\ secsDisplayEnd # "future"
  /\ currentMode = MODE_MINS_SET
  /\ ~blanked

\* The digit burn mode, entered from the blanked time display
BlankedInBurn == pc = "loop" /\ blanked /\ currentMode = MODE_DIGIT_BURN

====
